---- MODULE Spec2Model ----
(***************************************************************************)
(* Hybrid recommendation engine of zyra-vision-shop (backend/app).         *)
(*                                                                         *)
(* Part I  (specification Spec): the artifact store ModelLoader            *)
(*   (app/ml/model_loader.py), the admin reload / retrain-and-reload       *)
(*   endpoints (app/api/admin.py), the startup hook (app/main.py) and the  *)
(*   recommendation request that constructs HybridRecommender.             *)
(*   Artifact contents are abstracted to generation numbers; every Python  *)
(*   statement that reads a file or assigns a field is one step, so that   *)
(*   the event-loop thread and the background worker thread interleave as  *)
(*   they do under the interpreter.                                        *)
(*                                                                         *)
(* Part II (specification SpecFusion): HybridRecommender.hybrid_recommend  *)
(*   (app/services/recommender.py) with the collaborative scorer           *)
(*   (app/services/collaborative.py), over exact rationals.                *)
(*                                                                         *)
(* Part III (specification SpecServices): the scorers called one at a      *)
(*   time: find_similar_products (app/services/content_based.py), the      *)
(*   methods of CollaborativeService, _normalize_scores,                   *)
(*   get_recommendation_for_product, the content branch of                 *)
(*   hybrid_recommend by the queries it searches, the product-page         *)
(*   endpoint get_product_you_may_also_like (app/api/recommendations.py)   *)
(*   and get_user_content_recommendations_from_all_sources.                *)
(*                                                                         *)
(* Part IV (specifications SpecCache, SpecWorkers): RecommendationCache    *)
(*   (app/services/cache.py) and its caller get_top_pick                   *)
(*   (app/api/recommendations.py).  SpecCache runs whole calls one after   *)
(*   another, as the event loop does; SpecWorkers runs the methods from    *)
(*   two threads, one dictionary operation per step.                       *)
(*                                                                         *)
(* Part V (specification SpecLazy): the scorers called while some          *)
(*   artifact is not loaded: the not-loaded RuntimeError of the getters    *)
(*   and the lazy load_models() of the content scorer.                     *)
(***************************************************************************)
EXTENDS Integers, Sequences, FiniteSets, TLC

(* ------------------------------ bounds --------------------------------- *)

\* Highest artifact generation the retraining job may write.
MaxGen == 2

\* How many times the environment may remove an artifact file.
MaxRemovals == 1

\* Most calls of the cache and of the top-pick endpoint in one behaviour.
MaxCalls == 2

\* Most cache methods one worker thread calls in one behaviour.
MaxWorkerCalls == 2

(* --------------------------- Part I: state ------------------------------ *)

\* Python None for a store field; "file absent" for a file on disk.
None == 0

\* "loop": the asyncio event-loop thread (async def handlers, and the startup
\* hook, which awaits the executor and so runs alone).
\* "bg": the thread-pool worker that runs the synchronous background task.
Threads == {"loop", "bg"}

Fields == {"faiss_index", "product_ids", "sentence_transformer",
           "user_factors", "item_factors", "als_mappings"}

AlsFields == {"user_factors", "item_factors", "als_mappings"}

VARIABLES
    disk,        \* artifacts directory: file -> None or the generation stored
    store,       \* ModelLoader fields -> None or the generation loaded
    pc,          \* per thread: the statement it executes next
    op,          \* per thread: the operation in progress (or last finished)
    outcome,     \* per thread: how the last operation ended
    changed,     \* per thread: fields whose value the current call changed
    got,         \* the triple returned by the last get_als_factors()
    loading,     \* per thread: what the running _load_als_factors has read
    committed,   \* triples a completed _load_als_factors read from disk
    loadedOnce,  \* some load_models() call has completed successfully
    gen,         \* last generation the retraining job started to write
    removals,    \* files removed by the environment so far
    trained      \* result["success"] of train_als_model_background

storeVars == <<disk, store, pc, op, outcome, changed, got, loading, committed,
               loadedOnce, gen, removals, trained>>

\* One call of hybrid_recommend (Part II).
VARIABLES
    als,         \* the collaborative artifacts get_als_factors() returns
    req,         \* the call: user_id, the query's similarity to each index
                 \* row, alpha, k
    content,     \* content_results of the call
    cf,          \* cf_results of the call
    res,         \* the list the call returned
    fpc,         \* "idle" (no call), "called", "returned", "raised"
    cond         \* circumstances of the call: a query is given, a db
                 \* session is given, the text search raises

fusionVars == <<als, req, content, cf, res, fpc, cond>>

\* One call of a scorer or of get_recommendation_for_product (Part III).
VARIABLES
    call,        \* the function called and its arguments
    ret          \* what the call returned or raised; Pending before

serviceVars == <<call, ret>>

\* The module-level RecommendationCache and its callers (Part IV).
VARIABLES
    cache,       \* self.cache: key -> <<data, timestamp>>
    now,         \* what time.time() returns
    hist,        \* the calls made so far, with what each returned
    wpc,         \* each worker thread's position in the method it runs
    wloc         \* each worker thread's local variables

cacheVars == <<cache, now, hist, wpc, wloc>>

\* For each part, the variables of the other parts.
outsideStore == <<fusionVars, serviceVars, cacheVars>>

outsideFusion == <<storeVars, serviceVars, cacheVars>>

outsideServices == <<storeVars, fusionVars, cacheVars>>

outsideCache == <<storeVars, fusionVars, serviceVars>>

Files == {"faiss_products.index", "product_ids.npy", "sentence_transformer_model",
          "user_factors.npy", "item_factors.npy", "als_mappings.json"}

AlsFiles == {"user_factors.npy", "item_factors.npy", "als_mappings.json"}

\* ModelLoader.__init__: every field None.
EmptyStore == [f \in Fields |-> None]

NoTriple == <<None, None, None>>

StoreTriple(s) == <<s["user_factors"], s["item_factors"], s["als_mappings"]>>

\* The getters: the artifact, or the "not loaded" RuntimeError.
NotLoaded == <<"RuntimeError">>

Returned(v) == <<"ok", v>>

get_faiss_index(s) ==
    IF s["faiss_index"] = None THEN NotLoaded ELSE Returned(s["faiss_index"])

get_product_ids(s) ==
    IF s["product_ids"] = None THEN NotLoaded ELSE Returned(s["product_ids"])

get_sentence_transformer(s) ==
    IF s["sentence_transformer"] = None
      THEN NotLoaded
      ELSE Returned(s["sentence_transformer"])

\* A variant that returns the fields as they are.
AlsFactorsUnchecked(s) == Returned(StoreTriple(s))

get_als_factors(s) ==
    IF \/ s["user_factors"] = None
       \/ s["item_factors"] = None
       \/ s["als_mappings"] = None
    THEN NotLoaded
    ELSE Returned(StoreTriple(s))

(* --------------------------- Part I: steps ------------------------------ *)

\* Operations that run load_models() from its first statement.
LoadOps == {"startup", "recommend"}

\* A call starts: its bookkeeping is reset.
Begin(t, o, first) ==
    /\ pc' = [pc EXCEPT ![t] = first]
    /\ op' = [op EXCEPT ![t] = o]
    /\ outcome' = [outcome EXCEPT ![t] = "running"]
    /\ changed' = [changed EXCEPT ![t] = {}]

\* A call ends with outcome r.
Finish(t, r) ==
    /\ pc' = [pc EXCEPT ![t] = "idle"]
    /\ outcome' = [outcome EXCEPT ![t] = r]

Goto(t, l) ==
    /\ pc' = [pc EXCEPT ![t] = l]
    /\ UNCHANGED outcome

\* self.<f> = <value read from file>: the field is assigned, and the call is
\* recorded as having changed it when the value differs.
Assign(t, f, file) ==
    /\ store' = [store EXCEPT ![f] = disk[file]]
    /\ changed' = [changed EXCEPT
                     ![t] = IF disk[file] # store[f] THEN @ \cup {f} ELSE @]

\* self.<f> = np.load(file) (faiss.read_index, json.load): the read raises
\* when the file has gone since it was checked, else the field is assigned
\* and the call goes on at l.
LoadInto(t, f, file, l) ==
    IF disk[file] = None
      THEN /\ Finish(t, "open_failed")
           /\ UNCHANGED <<store, changed>>
      ELSE /\ Assign(t, f, file)
           /\ Goto(t, l)

\* An os.path.exists(file) check: raise FileNotFoundError("... not found"),
\* or go on.
ExistsCheck(t, file, l) ==
    /\ IF disk[file] = None
         THEN Finish(t, "not_found")
         ELSE Goto(t, l)
    /\ UNCHANGED <<disk, store, op, changed, got, loading, committed, loadedOnce,
                   gen, removals, trained,
                   outsideStore>>

\* main.py startup_event: load_models() in the executor, awaited; an
\* exception is logged and swallowed.  Runs once, before anything else.
\* (Init places the loop thread at its first statement.)

\* recommendations.py: HybridRecommender() then hybrid_recommend(...).
\* HybridRecommender.__init__ calls model_loader.load_models().
StartRecommend ==
    /\ pc["loop"] = "idle"
    /\ Begin("loop", "recommend", "fa_chk_x")
    /\ UNCHANGED <<disk, store, got, loading, committed, loadedOnce, gen, removals, trained,
                   outsideStore>>

\* admin.py reload_als_model (async def: on the event loop).
StartReload ==
    /\ pc["loop"] = "idle"
    /\ Begin("loop", "reload", "als_chk_u")
    /\ UNCHANGED <<disk, store, got, loading, committed, loadedOnce, gen, removals, trained,
                   outsideStore>>

\* admin.py retrain_and_reload_als: the closure retrain_and_reload is queued
\* as a background task; a synchronous task runs in the thread pool.
StartRetrainAndReload ==
    /\ pc["bg"] = "idle"
    /\ op["loop"] # "startup" \/ pc["loop"] = "idle"
    /\ gen < MaxGen
    /\ Begin("bg", "retrain_reload", "tr_begin")
    /\ trained' = FALSE
    /\ UNCHANGED <<disk, store, got, loading, committed, loadedOnce, gen, removals,
                   outsideStore>>

\* _load_faiss_index -------------------------------------------------------
FaissCheckIndex(t) ==
    /\ pc[t] = "fa_chk_x"
    /\ ExistsCheck(t, "faiss_products.index", "fa_chk_p")

FaissCheckIds(t) ==
    /\ pc[t] = "fa_chk_p"
    /\ ExistsCheck(t, "product_ids.npy", "fa_ld_x")

FaissLoadIndex(t) ==
    /\ pc[t] = "fa_ld_x"
    /\ LoadInto(t, "faiss_index", "faiss_products.index", "fa_ld_p")
    /\ UNCHANGED <<disk, op, got, loading, committed, loadedOnce, gen, removals, trained,
                   outsideStore>>

FaissLoadIds(t) ==
    /\ pc[t] = "fa_ld_p"
    /\ LoadInto(t, "product_ids", "product_ids.npy", "st_ld")
    /\ UNCHANGED <<disk, op, got, loading, committed, loadedOnce, gen, removals, trained,
                   outsideStore>>

\* _load_sentence_transformer: the local copy, else a download from the hub,
\* which raises when the hub cannot be reached.
EncoderLoad(t) ==
    /\ pc[t] = "st_ld"
    /\ \E reachable \in BOOLEAN :
       IF disk["sentence_transformer_model"] # None \/ reachable
         THEN /\ store' = [store EXCEPT !["sentence_transformer"] = 1]
              /\ changed' = [changed EXCEPT
                    ![t] = IF store["sentence_transformer"] # 1
                             THEN @ \cup {"sentence_transformer"} ELSE @]
              /\ Goto(t, "als_chk_u")
         ELSE /\ Finish(t, "OSError")
              /\ UNCHANGED <<store, changed>>
    /\ UNCHANGED <<disk, op, got, loading, committed, loadedOnce, gen, removals, trained,
                   outsideStore>>

\* _load_als_factors --------------------------------------------------------
\* A variant that loads each file right after its own check instead of
\* checking all three files first.
AlsCheckUserThenLoad(t) ==
    /\ pc[t] = "als_chk_u"
    /\ IF disk["user_factors.npy"] = None
         THEN /\ Finish(t, "not_found")
              /\ UNCHANGED <<store, changed>>
         ELSE /\ Assign(t, "user_factors", "user_factors.npy")
              /\ Goto(t, "als_chk_i")
    /\ UNCHANGED <<disk, op, got, loading, committed, loadedOnce, gen,
                   removals, trained,
                   outsideStore>>

AlsCheckUser(t) ==
    /\ pc[t] = "als_chk_u"
    /\ ExistsCheck(t, "user_factors.npy", "als_chk_i")

AlsCheckItem(t) ==
    /\ pc[t] = "als_chk_i"
    /\ ExistsCheck(t, "item_factors.npy", "als_chk_m")

AlsCheckMappings(t) ==
    /\ pc[t] = "als_chk_m"
    /\ ExistsCheck(t, "als_mappings.json", "als_ld_u")

AlsLoadUser(t) ==
    /\ pc[t] = "als_ld_u"
    /\ LoadInto(t, "user_factors", "user_factors.npy", "als_ld_i")
    /\ loading' = [loading EXCEPT
                     ![t] = <<disk["user_factors.npy"], None, None>>]
    /\ UNCHANGED <<disk, op, got, committed, loadedOnce, gen, removals, trained,
                   outsideStore>>

AlsLoadItem(t) ==
    /\ pc[t] = "als_ld_i"
    /\ LoadInto(t, "item_factors", "item_factors.npy", "als_ld_m")
    /\ loading' = [loading EXCEPT ![t][2] = disk["item_factors.npy"]]
    /\ UNCHANGED <<disk, op, got, committed, loadedOnce, gen, removals, trained,
                   outsideStore>>

\* The last assignment of _load_als_factors; what follows depends on the
\* caller: a recommendation request goes on to read the factors, every other
\* caller is done.
AlsLoadMappings(t) ==
    /\ pc[t] = "als_ld_m"
    /\ loading' = [loading EXCEPT ![t] = NoTriple]
    /\ IF disk["als_mappings.json"] = None
         THEN /\ Finish(t, "open_failed")
              /\ UNCHANGED <<store, changed, committed, loadedOnce>>
         ELSE /\ Assign(t, "als_mappings", "als_mappings.json")
              /\ committed' = committed \cup
                    {<<loading[t][1], loading[t][2], disk["als_mappings.json"]>>}
              /\ loadedOnce' = (loadedOnce \/ op[t] \in LoadOps)
              /\ IF op[t] = "recommend"
                   THEN Goto(t, "rd_chk")
                   ELSE Finish(t, "ok")
    /\ UNCHANGED <<disk, op, got, gen, removals, trained,
                   outsideStore>>

\* get_als_factors, called by the collaborative scorer during the request ---
ReadCheck(t) ==
    /\ pc[t] = "rd_chk"
    /\ IF get_als_factors(store) = NotLoaded
         THEN Finish(t, "RuntimeError")
         ELSE Goto(t, "rd_u")
    /\ got' = NoTriple
    /\ UNCHANGED <<disk, store, op, changed, loading, committed, loadedOnce, gen, removals,
                   trained,
                   outsideStore>>

ReadUser(t) ==
    /\ pc[t] = "rd_u"
    /\ got' = [got EXCEPT ![1] = store["user_factors"]]
    /\ Goto(t, "rd_i")
    /\ UNCHANGED <<disk, store, op, changed, loading, committed, loadedOnce, gen, removals,
                   trained,
                   outsideStore>>

ReadItem(t) ==
    /\ pc[t] = "rd_i"
    /\ got' = [got EXCEPT ![2] = store["item_factors"]]
    /\ Goto(t, "rd_m")
    /\ UNCHANGED <<disk, store, op, changed, loading, committed, loadedOnce, gen, removals,
                   trained,
                   outsideStore>>

ReadMappings(t) ==
    /\ pc[t] = "rd_m"
    /\ got' = [got EXCEPT ![3] = store["als_mappings"]]
    /\ Finish(t, "ok")
    /\ UNCHANGED <<disk, store, op, changed, loading, committed, loadedOnce, gen, removals,
                   trained,
                   outsideStore>>

\* train_als_model_background ----------------------------------------------
\* load_interactions .. train_als_model: a new generation is computed.
TrainCompute(t) ==
    /\ pc[t] = "tr_begin"
    /\ gen' = gen + 1
    /\ Goto(t, "tr_uf")
    /\ UNCHANGED <<disk, store, op, changed, got, loading, committed, loadedOnce,
                   removals, trained,
                   outsideStore>>

\* A variant in which the closure reloads whatever training reported.
TrainFailThenReload(t) ==
    /\ pc[t] \in {"tr_begin", "tr_uf", "tr_if", "tr_json"}
    /\ Goto(t, "als_chk_u")
    /\ UNCHANGED <<disk, store, op, changed, got, loading, committed, loadedOnce,
                   gen, removals, trained,
                   outsideStore>>

\* "No interactions found", or any exception: {"success": False}; the
\* closure then skips the reload.
TrainFail(t) ==
    /\ pc[t] \in {"tr_begin", "tr_uf", "tr_if", "tr_json"}
    /\ Finish(t, "TrainFailed")
    /\ UNCHANGED <<disk, store, op, changed, got, loading, committed, loadedOnce,
                   gen, removals, trained,
                   outsideStore>>

WriteFile(t, file, l) ==
    /\ disk' = [disk EXCEPT ![file] = gen]
    /\ Goto(t, l)
    /\ UNCHANGED <<store, op, changed, got, loading, committed, loadedOnce, gen, removals,
                   trained,
                   outsideStore>>

TrainSaveUser(t) ==
    /\ pc[t] = "tr_uf"
    /\ WriteFile(t, "user_factors.npy", "tr_if")

\* item factors, then the pickled mappings (als_mappings.npy, which the
\* loader never reads).
TrainSaveItem(t) ==
    /\ pc[t] = "tr_if"
    /\ WriteFile(t, "item_factors.npy", "tr_json")

\* The JSON mappings; training reports success and the closure reloads.
TrainSaveJson(t) ==
    /\ pc[t] = "tr_json"
    /\ disk' = [disk EXCEPT !["als_mappings.json"] = gen]
    /\ trained' = TRUE
    /\ Goto(t, "als_chk_u")
    /\ UNCHANGED <<store, op, changed, got, loading, committed, loadedOnce, gen, removals,
                   outsideStore>>

\* The environment: an operator or a deployment removes one of the
\* collaborative artifact files from the artifacts directory.
RemoveFile ==
    /\ \E file \in AlsFiles :
          /\ disk[file] # None
          /\ disk' = [disk EXCEPT ![file] = None]
    /\ removals < MaxRemovals
    /\ removals' = removals + 1
    /\ UNCHANGED <<store, pc, op, outcome, changed, got, loading, committed,
                   loadedOnce, gen, trained,
                   outsideStore>>

(* ---------------------- Part II: exact arithmetic ----------------------- *)

\* Scores are Python floats; the model computes with exact rationals <<n, d>>
\* in lowest terms, d > 0, so equal values are equal tuples.
RECURSIVE GCD(_, _)
GCD(a, b) == IF b = 0 THEN a ELSE GCD(b, a % b)

Abs(x) == IF x < 0 THEN 0 - x ELSE x

Rat(n, d) ==
    LET sgn == IF d < 0 THEN 0 - 1 ELSE 1
        g == GCD(Abs(n), Abs(d))
    IN  <<(sgn * n) \div g, (sgn * d) \div g>>

Zero == <<0, 1>>
One == <<1, 1>>

\* The score FAISS reports for a missing neighbour is the lowest float32,
\* -3.4028235e38.  It is written <<-1, 0>> and its negation <<1, 0>>: next
\* to it an ordinary score is below the rounding unit, so adding one to it
\* or subtracting one from it leaves it unchanged.
FloatLowest == <<0 - 1, 0>>

IsHuge(a) == a[2] = 0

RAdd(a, b) == Rat(a[1] * b[2] + b[1] * a[2], a[2] * b[2])

RSub(a, b) ==
    CASE ~IsHuge(a) /\ ~IsHuge(b) ->
             Rat(a[1] * b[2] - b[1] * a[2], a[2] * b[2])
      [] ~IsHuge(a) /\ IsHuge(b) -> <<0 - b[1], 0>>
      [] IsHuge(a) /\ ~IsHuge(b) -> a
      [] IsHuge(a) /\ IsHuge(b) /\ a = b -> Zero

RMul(a, b) == Rat(a[1] * b[1], a[2] * b[2])

RDiv(a, b) ==
    CASE ~IsHuge(a) /\ ~IsHuge(b) -> Rat(a[1] * b[2], a[2] * b[1])
      [] IsHuge(a) /\ IsHuge(b) -> <<a[1] * b[1], 1>>
      [] a = Zero /\ IsHuge(b) -> Zero

RLt(a, b) ==
    LET la == IF IsHuge(a) THEN a[1] ELSE 0
        lb == IF IsHuge(b) THEN b[1] ELSE 0
    IN  IF la # lb THEN la < lb
        ELSE IF IsHuge(a) THEN FALSE
        ELSE a[1] * b[2] < b[1] * a[2]

RLeq(a, b) == ~RLt(b, a)

\* min(scores), max(scores) of a non-empty list of (id, score) pairs.
RECURSIVE MinScore(_)
MinScore(results) ==
    IF Len(results) = 1 THEN results[1][2]
    ELSE LET m == MinScore(Tail(results))
         IN  IF RLt(results[1][2], m) THEN results[1][2] ELSE m

RECURSIVE MaxScore(_)
MaxScore(results) ==
    IF Len(results) = 1 THEN results[1][2]
    ELSE LET m == MaxScore(Tail(results))
         IN  IF RLt(m, results[1][2]) THEN results[1][2] ELSE m

\* A Python dict as the sequence of its (key, value) pairs in insertion order.
DictHas(d, key) == \E i \in 1..Len(d) : d[i][1] = key

DictGet(d, key) == d[CHOOSE i \in 1..Len(d) : d[i][1] = key][2]

DictSet(d, key, v) ==
    IF DictHas(d, key)
      THEN [i \in 1..Len(d) |-> IF d[i][1] = key THEN <<key, v>> ELSE d[i]]
      ELSE Append(d, <<key, v>>)

RECURSIVE DictFromPairs(_, _)
DictFromPairs(d, pairs) ==
    IF pairs = <<>> THEN d
    ELSE DictFromPairs(DictSet(d, Head(pairs)[1], Head(pairs)[2]), Tail(pairs))

(* ------------------- Part II: the collaborative scorer ------------------ *)

\* product_ids.npy for a catalog of n items: row i of the index (0-based)
\* is item product_ids(n)[i + 1].
AllProducts == <<"A", "B", "C", "D">>

product_ids(n) == SubSeq(AllProducts, 1, n)

\* A key of a mapping loaded by json.load is a str; a numpy integer used as
\* a key is an int and equals no str key.
StrKey(i) == <<"str", i>>
IntKey(i) == <<"int", i>>

\* np.dot of two factor rows.
RECURSIVE Dot(_, _)
Dot(a, b) == IF a = <<>> THEN 0 ELSE a[1] * b[1] + Dot(Tail(a), Tail(b))

\* scores = np.dot(item_factors, user_factor): one raw score per item row.
AllScores(m, user_factor) ==
    [i \in 1..Len(m.item_factors) |-> Dot(m.item_factors[i], user_factor)]

\* A variant that takes the first score for the minimum.
SeqHead(q) == q[1]

RECURSIVE SeqMin(_)
SeqMin(q) ==
    IF Len(q) = 1 THEN q[1]
    ELSE LET r == SeqMin(Tail(q)) IN IF q[1] < r THEN q[1] ELSE r

RECURSIVE SeqMax(_)
SeqMax(q) ==
    IF Len(q) = 1 THEN q[1]
    ELSE LET r == SeqMax(Tail(q)) IN IF q[1] > r THEN q[1] ELSE r

\* A variant without the reversal: the row indices by non-decreasing score.
ArgsortAscending(scores) ==
    {p \in [1..Len(scores) -> 0..(Len(scores) - 1)] :
        /\ \A i, j \in 1..Len(scores) : i # j => p[i] # p[j]
        /\ \A i \in 1..(Len(scores) - 1) :
              scores[p[i] + 1] <= scores[p[i + 1] + 1]}

\* np.argsort(scores)[::-1]: the row indices (0-based) by non-increasing
\* score.  numpy does not fix the order of equal scores, so every such
\* order is a possible result.
ArgsortDescending(scores) ==
    {p \in [1..Len(scores) -> 0..(Len(scores) - 1)] :
        /\ \A i, j \in 1..Len(scores) : i # j => p[i] # p[j]
        /\ \A i \in 1..(Len(scores) - 1) :
              scores[p[i] + 1] >= scores[p[i + 1] + 1]}

\* seq[:k]
Take(q, k) == SubSeq(q, 1, IF k < Len(q) THEN k ELSE Len(q))

\* is_cold_user
is_cold_user(m, user_id) == user_id \notin DOMAIN m.user_id_to_idx

\* A variant that scales to [0, 1] instead of [0.5, 1].
MinMaxNormalized(raw, lo, hi) ==
    IF hi # lo THEN Rat(raw - lo, hi - lo) ELSE Rat(9, 10)

\* The population-relative score of get_user_recommendations.
PopulationNormalized(raw, lo, hi) ==
    IF hi # lo
      THEN RAdd(Rat(1, 2), RMul(Rat(raw - lo, hi - lo), Rat(1, 2)))
      ELSE Rat(9, 10)

RECURSIVE UserResults(_, _, _)
UserResults(m, scores, top_indices) ==
    IF top_indices = <<>> THEN <<>>
    ELSE LET idx == Head(top_indices)
             rest == UserResults(m, scores, Tail(top_indices))
         IN  IF StrKey(idx) \notin DOMAIN m.idx_to_item_id
               THEN rest
               ELSE <<<<m.idx_to_item_id[StrKey(idx)],
                        PopulationNormalized(scores[idx + 1], SeqMin(scores),
                                             SeqMax(scores))>>>> \o rest

\* get_user_recommendations(user_id, k), given the order argsort produced.
get_user_recommendations(m, user_id, k, order) ==
    IF user_id \notin DOMAIN m.user_id_to_idx THEN <<>>
    ELSE LET scores ==
                 AllScores(m, m.user_factors[m.user_id_to_idx[user_id] + 1])
         IN  UserResults(m, scores, Take(order, k))

\* The orders argsort may produce for this user (one dummy order when the
\* user is unknown and nothing is sorted).
UserOrders(m, user_id) ==
    IF user_id \notin DOMAIN m.user_id_to_idx THEN {<<>>}
    ELSE ArgsortDescending(
             AllScores(m, m.user_factors[m.user_id_to_idx[user_id] + 1]))

\* _get_popular_products(k): the item-factor row sums, ranked; each row is
\* mapped with idx_to_item_id[idx], idx a numpy integer.  A KeyError (any
\* exception) switches to the random fallback, drawn by the caller.
PopularityScores(m) ==
    [i \in 1..Len(m.item_factors) |-> Dot(m.item_factors[i],
                                          [j \in 1..Len(m.item_factors[i]) |-> 1])]

PopularRaises(m, k, order) ==
    \E i \in 1..Len(Take(order, k)) :
        IntKey(order[i]) \notin DOMAIN m.idx_to_item_id

PopularResults(m, k, order) ==
    LET pop == PopularityScores(m)
        top == Take(order, k)
    IN  [i \in 1..Len(top) |->
            <<m.idx_to_item_id[IntKey(top[i])], Rat(pop[top[i] + 1], 1)>>]

\* random.uniform(0, 0.3) added to 0.7: the two ends of the range.
RandomScores == {Rat(7, 10), Rat(1, 1)}

\* random.sample(range(total), min(k, total)) with a random score each.
RandomFallback(n, k) ==
    LET m == IF k < n THEN k ELSE n
    IN  {r \in [1..m -> (1..n) \X RandomScores] :
            \A i, j \in 1..m : i # j => r[i][1] # r[j][1]}

FallbackResults(n, draw) ==
    [i \in 1..Len(draw) |-> <<product_ids(n)[draw[i][1]], draw[i][2]>>]

\* The candidate lists _get_popular_products(k) may return.
get_popular_products(m, n, k) ==
    UNION { IF PopularRaises(m, k, order)
              THEN {FallbackResults(n, draw) : draw \in RandomFallback(n, k)}
              ELSE {PopularResults(m, k, order)}
            : order \in ArgsortDescending(PopularityScores(m)) }

(* --------------------- Part II: the content scorer ---------------------- *)

\* faiss_index.search(query_embedding, k) followed by the result loop of
\* search_products: sim[i] is the inner product (in tenths) of the query with
\* row i; the k best rows by non-increasing score, and, when the index holds
\* fewer than k rows, label -1 with the lowest float for the rest.
\* product_ids[-1] is the last item.
search_products(sim, k, order) ==
    LET n == Len(sim)
    IN  [i \in 1..k |->
            IF i <= n
              THEN <<product_ids(n)[order[i] + 1], Rat(sim[order[i] + 1], 10)>>
              ELSE <<product_ids(n)[n], FloatLowest>>]

(* ---------------------- Part II: the fusion engine ---------------------- *)

\* _normalize_scores: min/max of the branch's own candidates.
normalize_scores(results) ==
    IF results = <<>> THEN <<>>
    ELSE LET lo == MinScore(results)
             hi == MaxScore(results)
         IN  IF hi = lo
               THEN DictFromPairs(<<>>,
                        [i \in 1..Len(results) |-> <<results[i][1], One>>])
               ELSE DictFromPairs(<<>>,
                        [i \in 1..Len(results) |->
                            <<results[i][1],
                              RDiv(RSub(results[i][2], lo), RSub(hi, lo))>>])

\* A variant that weights the content score with alpha instead of 1 - alpha.
ContentEntriesAlphaWeighted(content_scores, alpha) ==
    [i \in 1..Len(content_scores) |->
        <<content_scores[i][1],
          [content_score |-> content_scores[i][2],
           cf_score |-> Zero,
           hybrid_score |-> RMul(alpha, content_scores[i][2]),
           source |-> "content_only"]>>]

\* A variant that adds the content score with weight 1.
ContentEntriesUnweighted(content_scores, alpha) ==
    [i \in 1..Len(content_scores) |->
        <<content_scores[i][1],
          [content_score |-> content_scores[i][2],
           cf_score |-> Zero,
           hybrid_score |-> content_scores[i][2],
           source |-> "content_only"]>>]

\* "Add content scores": one entry per content candidate.
ContentEntries(content_scores, alpha) ==
    [i \in 1..Len(content_scores) |->
        <<content_scores[i][1],
          [content_score |-> content_scores[i][2],
           cf_score |-> Zero,
           hybrid_score |-> RMul(RSub(One, alpha), content_scores[i][2]),
           source |-> "content_only"]>>]

\* "Add collaborative scores": merge into an existing entry, or add one.
RECURSIVE AddCollaborative(_, _, _)
AddCollaborative(hybrid_scores, cf_scores, alpha) ==
    IF cf_scores = <<>> THEN hybrid_scores
    ELSE LET pid == Head(cf_scores)[1]
             score == Head(cf_scores)[2]
             merged ==
               IF DictHas(hybrid_scores, pid)
                 THEN DictSet(hybrid_scores, pid,
                        [DictGet(hybrid_scores, pid) EXCEPT
                           !.cf_score = score,
                           !.hybrid_score = RAdd(@, RMul(alpha, score)),
                           !.source = "hybrid"])
                 ELSE Append(hybrid_scores,
                        <<pid, [content_score |-> Zero,
                                cf_score |-> score,
                                hybrid_score |-> RMul(alpha, score),
                                source |-> "collaborative_only"]>>)
         IN  AddCollaborative(merged, Tail(cf_scores), alpha)

\* A variant of the insertion that puts an entry before the entries of equal
\* score.
RECURSIVE InsertBeforeEqual(_, _)
InsertBeforeEqual(sorted, e) ==
    IF sorted = <<>> THEN <<e>>
    ELSE IF RLeq(Head(sorted)[2].hybrid_score, e[2].hybrid_score)
           THEN <<e>> \o sorted
           ELSE <<Head(sorted)>> \o InsertBeforeEqual(Tail(sorted), e)

\* sorted(..., key=hybrid_score, reverse=True): stable, so entries with equal
\* keys keep their dict order.
RECURSIVE InsertDescending(_, _)
InsertDescending(sorted, e) ==
    IF sorted = <<>> THEN <<e>>
    ELSE IF RLt(Head(sorted)[2].hybrid_score, e[2].hybrid_score)
           THEN <<e>> \o sorted
           ELSE <<Head(sorted)>> \o InsertDescending(Tail(sorted), e)

RECURSIVE SortedDescending(_, _)
SortedDescending(sorted, entries) ==
    IF entries = <<>> THEN sorted
    ELSE SortedDescending(InsertDescending(sorted, Head(entries)),
                          Tail(entries))

\* hybrid_recommend from "Normalize scores" on: the two branch lists are
\* normalized, merged, sorted and cut to k.
hybrid_scoring(content_results, cf_results, alpha, k) ==
    LET content_scores == normalize_scores(content_results)
        cf_scores == normalize_scores(cf_results)
        hybrid_scores == AddCollaborative(ContentEntries(content_scores, alpha),
                                          cf_scores, alpha)
        sorted_results == SortedDescending(<<>>, hybrid_scores)
        top == Take(sorted_results, k)
    IN  [i \in 1..Len(top) |->
            [product_id |-> top[i][1],
             hybrid_score |-> top[i][2].hybrid_score,
             content_score |-> top[i][2].content_score,
             cf_score |-> top[i][2].cf_score,
             source |-> top[i][2].source]]

(* -------------------- Part II: hybrid_recommend ------------------------- *)

\* user_id=None
NoUser == "None"

\* A variant that serves popular products to every user without a factor
\* row, not only to anonymous calls.
CollaborativeBranchPopularForCold(m, n, user_id, k) ==
    IF user_id # NoUser /\ ~is_cold_user(m, user_id)
      THEN {get_user_recommendations(m, user_id, k * 2, order) :
                order \in UserOrders(m, user_id)}
      ELSE get_popular_products(m, n, k * 2)

\* "Get collaborative scores": the lists the collaborative branch may yield.
CollaborativeBranch(m, n, user_id, k) ==
    IF user_id # NoUser /\ ~is_cold_user(m, user_id)
      THEN {get_user_recommendations(m, user_id, k * 2, order) :
                order \in UserOrders(m, user_id)}
      ELSE IF user_id = NoUser
        THEN get_popular_products(m, n, k * 2)
        ELSE {<<>>}

\* "Get content-based scores": every path of the content branch ends in a
\* text search for 2k neighbours.
ContentBranch(sim, k) ==
    {search_products(sim, k * 2, order) : order \in ArgsortDescending(sim)}

\* 0.8 + random.uniform(0, 0.2): the two ends of the range.
TrendingScores == {Rat(4, 5), Rat(1, 1)}

\* The random fallback of _get_trending_products(k).
TrendingFallback(n, k) ==
    LET m == IF k < n THEN k ELSE n
    IN  {FallbackResults(n, draw) :
            draw \in {r \in [1..m -> (1..n) \X TrendingScores] :
                         \A i, j \in 1..m : i # j => r[i][1] # r[j][1]}}

\* The content branch as a whole: with a query, search_products is called
\* bare and what it raises leaves hybrid_recommend; without one, the
\* personalized search and the trending search are each wrapped, and a
\* search that raises ends in the random trending fallback.
ContentOutcomes(c, sim, k) ==
    IF ~c.search_raises
      THEN {[raised |-> FALSE, results |-> r] : r \in ContentBranch(sim, k)}
      ELSE IF c.query
        THEN {[raised |-> TRUE, results |-> <<>>]}
        ELSE {[raised |-> FALSE, results |-> r] :
                 r \in TrendingFallback(Len(sim), k * 2)}

\* hybrid_recommend(user_id, query, alpha, k)
HybridRecommend ==
    /\ fpc = "called"
    /\ \E content_outcome \in ContentOutcomes(cond, req.sim, req.k) :
          IF content_outcome.raised
            THEN /\ fpc' = "raised"
                 /\ UNCHANGED <<content, cf, res>>
            ELSE \E cf_results \in CollaborativeBranch(als, Len(req.sim),
                                                       req.user_id, req.k) :
                    /\ content' = content_outcome.results
                    /\ cf' = cf_results
                    /\ res' = hybrid_scoring(content_outcome.results,
                                             cf_results, req.alpha, req.k)
                    /\ fpc' = "returned"
    /\ UNCHANGED <<als, req, cond>>
    /\ UNCHANGED outsideFusion

(* ---------------------- Part III: the scorers -------------------------- *)

\* What a call gives back: a value, or the exception that leaves it.
Ok(v) == <<"ok", v>>

Raise(e) == <<"raise", e>>

\* An index of L2-normalized embeddings: every row is one of these vectors
\* divided by 5, so an inner product is Dot / 25.
Units == {<<5, 0>>, <<0, 5>>, <<3, 4>>, <<4, 3>>}

InnerProducts(index, v) == [i \in 1..Len(index) |-> Dot(index[i], v)]

\* faiss_index.search(embedding, k): (score, label) pairs, the labels
\* 0-based rows by non-increasing score, then label -1 with the lowest
\* float when the index holds fewer than k rows.
IndexSearch(index, v, k, order) ==
    [i \in 1..k |->
        IF i <= Len(index)
          THEN <<Rat(InnerProducts(index, v)[order[i] + 1], 25), order[i]>>
          ELSE <<FloatLowest, 0 - 1>>]

\* ids[idx] for a numpy array: a negative idx counts from the end.
ArrayAt(ids, idx) == IF idx < 0 THEN ids[Len(ids) + idx + 1] ELSE ids[idx + 1]

\* The loop of find_similar_products: every hit whose label is not the
\* query row.
RECURSIVE ExcludeSelf(_, _, _)
ExcludeSelf(hits, ids, product_idx) ==
    IF hits = <<>> THEN <<>>
    ELSE LET rest == ExcludeSelf(Tail(hits), ids, product_idx)
         IN  IF Head(hits)[2] # product_idx
               THEN <<<<ArrayAt(ids, Head(hits)[2]), Head(hits)[1]>>>> \o rest
               ELSE rest

\* find_similar_products(product_id, k), given the order the search found.
find_similar_products(index, product_id, k, order) ==
    LET ids == product_ids(Len(index))
    IN  IF \A i \in 1..Len(ids) : ids[i] # product_id THEN <<>>
        ELSE LET product_idx ==
                     (CHOOSE i \in 1..Len(ids) :
                         /\ ids[i] = product_id
                         /\ \A j \in 1..(i - 1) : ids[j] # product_id) - 1
                 hits == IndexSearch(index, index[product_idx + 1], k + 1,
                                     order)
             IN  Take(ExcludeSelf(hits, ids, product_idx), k)

\* The orders the search of find_similar_products may find.
SimilarOrders(index, product_id) ==
    LET ids == product_ids(Len(index))
    IN  IF \A i \in 1..Len(ids) : ids[i] # product_id THEN {<<>>}
        ELSE ArgsortDescending(InnerProducts(index,
                 index[CHOOSE i \in 1..Len(ids) : ids[i] = product_id]))

\* get_item_similar(product_id, k), given the order argsort produced:
\* the first index of the order is skipped as "self"; each further index,
\* a numpy integer, is looked up in idx_to_item_id.
get_item_similar(m, product_id, k, order) ==
    IF product_id \notin DOMAIN m.item_id_to_idx THEN Ok(<<>>)
    ELSE LET item_factor == m.item_factors[m.item_id_to_idx[product_id] + 1]
             similarities == AllScores(m, item_factor)
             top_indices == Take(Tail(order), k)
         IN  IF \E i \in 1..Len(top_indices) :
                    IntKey(top_indices[i]) \notin DOMAIN m.idx_to_item_id
               THEN Raise("KeyError")
               ELSE Ok([i \in 1..Len(top_indices) |->
                          <<m.idx_to_item_id[IntKey(top_indices[i])],
                            Rat(similarities[top_indices[i] + 1], 1)>>])

ItemOrders(m, product_id) ==
    IF product_id \notin DOMAIN m.item_id_to_idx THEN {<<0>>}
    ELSE ArgsortDescending(
             AllScores(m, m.item_factors[m.item_id_to_idx[product_id] + 1]))

\* A variant that reports an unknown id by a negative score.
ScoreNegativeForUnknown(m, user_id, product_id) ==
    IF \/ user_id \notin DOMAIN m.user_id_to_idx
       \/ product_id \notin DOMAIN m.item_id_to_idx
      THEN Rat(0 - 1, 1)
      ELSE Rat(Dot(m.user_factors[m.user_id_to_idx[user_id] + 1],
                   m.item_factors[m.item_id_to_idx[product_id] + 1]), 1)

\* get_collaborative_score(user_id, product_id)
get_collaborative_score(m, user_id, product_id) ==
    IF \/ user_id \notin DOMAIN m.user_id_to_idx
       \/ product_id \notin DOMAIN m.item_id_to_idx
      THEN Zero
      ELSE Rat(Dot(m.user_factors[m.user_id_to_idx[user_id] + 1],
                   m.item_factors[m.item_id_to_idx[product_id] + 1]), 1)

\* A variant whose default for equal scores is that of
\* get_user_recommendations.
ScoreWithNormalizationNineTenths(m, user_id, product_id) ==
    IF \/ user_id \notin DOMAIN m.user_id_to_idx
       \/ product_id \notin DOMAIN m.item_id_to_idx
      THEN <<Zero, Zero>>
      ELSE LET user_factor == m.user_factors[m.user_id_to_idx[user_id] + 1]
               all_scores == AllScores(m, user_factor)
               item_score ==
                   Dot(m.item_factors[m.item_id_to_idx[product_id] + 1],
                       user_factor)
           IN  <<Rat(item_score, 1),
                 IF SeqMax(all_scores) # SeqMin(all_scores)
                   THEN RAdd(Rat(1, 2),
                             RMul(Rat(item_score - SeqMin(all_scores),
                                      SeqMax(all_scores) - SeqMin(all_scores)),
                                  Rat(1, 2)))
                   ELSE Rat(9, 10)>>

\* get_collaborative_score_with_normalization: (raw, normalized).
get_collaborative_score_with_normalization(m, user_id, product_id) ==
    IF \/ user_id \notin DOMAIN m.user_id_to_idx
       \/ product_id \notin DOMAIN m.item_id_to_idx
      THEN <<Zero, Zero>>
      ELSE LET user_factor == m.user_factors[m.user_id_to_idx[user_id] + 1]
               all_scores == AllScores(m, user_factor)
               item_score ==
                   Dot(m.item_factors[m.item_id_to_idx[product_id] + 1],
                       user_factor)
           IN  <<Rat(item_score, 1),
                 IF SeqMax(all_scores) # SeqMin(all_scores)
                   THEN RAdd(Rat(1, 2),
                             RMul(Rat(item_score - SeqMin(all_scores),
                                      SeqMax(all_scores) - SeqMin(all_scores)),
                                  Rat(1, 2)))
                   ELSE Rat(3, 4)>>

\* The rows (0-based, ascending: the order of the JSON mapping) whose
\* item is among the category's products.
RECURSIVE CategoryIndices(_, _, _)
CategoryIndices(m, category, idx) ==
    IF idx >= Len(m.item_factors) THEN <<>>
    ELSE IF /\ StrKey(idx) \in DOMAIN m.idx_to_item_id
            /\ m.idx_to_item_id[StrKey(idx)] \in category
           THEN <<idx>> \o CategoryIndices(m, category, idx + 1)
           ELSE CategoryIndices(m, category, idx + 1)

\* category_scores.sort(key=score, reverse=True) on (idx, score) pairs:
\* stable.
RECURSIVE InsertByScore(_, _)
InsertByScore(sorted, e) ==
    IF sorted = <<>> THEN <<e>>
    ELSE IF Head(sorted)[2] < e[2]
           THEN <<e>> \o sorted
           ELSE <<Head(sorted)>> \o InsertByScore(Tail(sorted), e)

RECURSIVE SortByScore(_, _)
SortByScore(sorted, pairs) ==
    IF pairs = <<>> THEN sorted
    ELSE SortByScore(InsertByScore(sorted, Head(pairs)), Tail(pairs))

\* get_user_recommendations_filtered_by_category(user_id, category, k)
get_user_recommendations_filtered_by_category(m, user_id, category, k) ==
    IF user_id \notin DOMAIN m.user_id_to_idx THEN <<>>
    ELSE LET user_factor == m.user_factors[m.user_id_to_idx[user_id] + 1]
             valid == CategoryIndices(m, category, 0)
             category_scores ==
                 [i \in 1..Len(valid) |->
                     <<valid[i], Dot(user_factor, m.item_factors[valid[i] + 1])>>]
             scores_only == [i \in 1..Len(valid) |-> category_scores[i][2]]
             top == Take(SortByScore(<<>>, category_scores), k)
         IN  IF valid = <<>> THEN <<>>
             ELSE [i \in 1..Len(top) |->
                     <<m.idx_to_item_id[StrKey(top[i][1])],
                       PopulationNormalized(top[i][2], SeqMin(scores_only),
                                            SeqMax(scores_only))>>]

\* get_recommendation_for_product(product_id, user_id, k), given the content
\* list and the outcome of get_item_similar: an exception of the
\* collaborative scorer leaves the function; else the two lists are
\* normalized, summed with weight 0.5 each, sorted and cut to k.
get_recommendation_for_product(m, content_results, user_id, similar, k) ==
    LET wanted == user_id # NoUser /\ ~is_cold_user(m, user_id)
    IN  IF wanted /\ similar[1] = "raise" THEN similar
        ELSE LET cf_results == IF wanted THEN similar[2] ELSE <<>>
                 hybrid_scores ==
                     AddCollaborative(
                         ContentEntries(normalize_scores(content_results),
                                        Rat(1, 2)),
                         normalize_scores(cf_results), Rat(1, 2))
                 top == Take(SortedDescending(<<>>, hybrid_scores), k)
             IN  Ok([i \in 1..Len(top) |->
                        [product_id |-> top[i][1],
                         hybrid_score |-> top[i][2].hybrid_score,
                         content_score |-> top[i][2].content_score,
                         cf_score |-> top[i][2].cf_score,
                         source |-> "hybrid"]])

(* -------------------- Part II: inputs ----------------------------------- *)

\* Largest k of a call.
MaxK == 3

\* Inner products of the query with an index row, in tenths.
SimTenths == {0, 9, 10}

\* The index holds the three items the collaborative models know, with any
\* similarities; or a fourth item D as well, without interactions.
Sims == [1..3 -> SimTenths] \cup {<<9, 5, 0, 10>>, <<10, 9, 9, 0>>}

Alphas == {Rat(0, 1), Rat(1, 2), Rat(1, 1)}

\* "u1", "u2" have a factor row; "u9" has none (a cold user).
UserArgs == {NoUser, "u1", "u2", "u9"}

\* Two trained models over items A, B, C (row i is item i) and users u1, u2.
\* With the first, u1's raw scores are A=5, B=3, C=1 and u2's are all 1.
ItemFactors == {<< <<1, 2>>, <<1, 1>>, <<1, 0>> >>,
                << <<1, 0>>, <<2, 1>>, <<1, 2>> >>}

AlsModels ==
    {[user_id_to_idx |-> [u \in {"u1", "u2"} |-> IF u = "u1" THEN 0 ELSE 1],
      user_factors |-> << <<1, 2>>, <<1, 0>> >>,
      item_factors |-> f,
      item_id_to_idx |-> [p \in {"A", "B", "C"} |->
                              CHOOSE i \in 0..2 : AllProducts[i + 1] = p],
      idx_to_item_id |-> [key \in {StrKey(i) : i \in 0..2} |->
                              AllProducts[key[2] + 1]]] : f \in ItemFactors}

Requests == [user_id : UserArgs, sim : Sims, alpha : Alphas, k : 1..MaxK]

\* Values of the Part II variables while no call is modelled (Part I).
NoModel == [user_id_to_idx |-> <<>>, user_factors |-> <<>>,
            item_factors |-> <<>>, item_id_to_idx |-> <<>>,
            idx_to_item_id |-> <<>>]

NoRequest == [user_id |-> NoUser, sim |-> <<>>, alpha |-> Zero, k |-> 0]

\* A call with a query and a db session whose text search works.
Normal == [query |-> TRUE, db |-> TRUE, search_raises |-> FALSE]

\* Values of the Part III variables while no scorer call is modelled.
NoCall == [fn |-> "none"]

Pending == <<"pending">>

(* ------------------- Part IV: RecommendationCache ----------------------- *)

\* recommendation_cache = RecommendationCache(ttl_seconds=300)
ttl_seconds == 300

\* The readings of the clock that matter next to ttl_seconds.
Instants == {0, 299, 300, 600}

\* Optional[str]: None is the empty tuple, a string s the tuple <<s>>.
NoQuery == <<>>

Query(text) == <<text>>

\* repr of the floats and ints that occur as alpha and k.
FloatStr(alpha) ==
    CASE alpha = Rat(1, 2) -> "0.5"
      [] alpha = Rat(3, 5) -> "0.6"

IntStr(k) ==
    CASE k = 1 -> "1"
      [] k = 10 -> "10"

\* _make_key: a UUID is always true; None and the empty string are false.
make_key(user_id, query, alpha, k) ==
    LET user_str == IF user_id # NoUser THEN user_id ELSE "anonymous"
        query_str == IF query # NoQuery /\ query[1] # "" THEN query[1]
                     ELSE "none"
    IN  "rec:" \o user_str \o ":" \o query_str \o ":" \o FloatStr(alpha)
            \o ":" \o IntStr(k)

KeyOf(r) == make_key(r.user_id, r.query, r.alpha, r.k)

\* What get returns for a key it does not hold: Python's None.
Miss == "None"

\* A variant that stores nothing.
PutNothing(c, key, value) == c

\* self.cache[key] = value
Put(c, key, value) ==
    [x \in DOMAIN c \cup {key} |-> IF x = key THEN value ELSE c[x]]

\* del self.cache[key]
Del(c, key) == [x \in DOMAIN c \ {key} |-> c[x]]

\* A variant that still serves an entry exactly ttl_seconds old.
FreshThrough(t, timestamp) == t - timestamp <= ttl_seconds

\* The test of get, negated in cleanup_expired.
Fresh(t, timestamp) == t - timestamp < ttl_seconds

\* get(...) run without interruption at time t: what it returns and the map
\* it leaves.
get(c, key, t) ==
    IF key \in DOMAIN c
      THEN IF Fresh(t, c[key][2])
             THEN [data |-> c[key][1], cache |-> c]
             ELSE [data |-> Miss, cache |-> Del(c, key)]
      ELSE [data |-> Miss, cache |-> c]

\* set(..., data) at time t
set(c, key, data, t) == Put(c, key, <<data, t>>)

\* cleanup_expired() run without interruption at time t
cleanup_expired(c, t) ==
    LET expired_keys == {key \in DOMAIN c : ~Fresh(t, c[key][2])}
    IN  [n |-> Cardinality(expired_keys),
         cache |-> [x \in DOMAIN c \ expired_keys |-> c[x]]]

\* The worker threads and their locals while they run no method.
Workers == {"w1", "w2"}

NoLocals == [key |-> "", data |-> "", timestamp |-> 0, current_time |-> 0,
             todo |-> {}, size |-> 0, expired_keys |-> <<>>, calls |-> 0,
             exc |-> "none"]

\* A fresh process: the cache is empty and nothing has called it.
CacheIdle ==
    /\ cache = <<>>
    /\ now = 0
    /\ hist = <<>>
    /\ wpc = [w \in Workers |-> "idle"]
    /\ wloc = [w \in Workers |-> NoLocals]

(* ------------------------ Part I: specification ------------------------- *)

\* The process has just been started: ModelLoader() constructed, the startup
\* hook about to run load_models(); the artifacts directory holds any subset
\* of the files, each of the first generation.
StoreInit ==
    /\ disk \in [Files -> {None, 1}]
    /\ store = EmptyStore
    /\ pc = [t \in Threads |-> IF t = "loop" THEN "fa_chk_x" ELSE "idle"]
    /\ op = [t \in Threads |-> IF t = "loop" THEN "startup" ELSE "none"]
    /\ outcome = [t \in Threads |-> IF t = "loop" THEN "running" ELSE "none"]
    /\ changed = [t \in Threads |-> {}]
    /\ got = NoTriple
    /\ loading = [t \in Threads |-> NoTriple]
    /\ committed = {}
    /\ loadedOnce = FALSE
    /\ gen = 1
    /\ removals = 0
    /\ trained = FALSE
    /\ als = NoModel
    /\ req = NoRequest
    /\ content = <<>>
    /\ cf = <<>>
    /\ res = <<>>
    /\ fpc = "idle"
    /\ cond = Normal
    /\ call = NoCall
    /\ ret = Pending
    /\ CacheIdle

Step(t) ==
    \/ FaissCheckIndex(t)
    \/ FaissCheckIds(t)
    \/ FaissLoadIndex(t)
    \/ FaissLoadIds(t)
    \/ EncoderLoad(t)
    \/ AlsCheckUser(t)
    \/ AlsCheckItem(t)
    \/ AlsCheckMappings(t)
    \/ AlsLoadUser(t)
    \/ AlsLoadItem(t)
    \/ AlsLoadMappings(t)
    \/ ReadCheck(t)
    \/ ReadUser(t)
    \/ ReadItem(t)
    \/ ReadMappings(t)
    \/ TrainCompute(t)
    \/ TrainFail(t)
    \/ TrainSaveUser(t)
    \/ TrainSaveItem(t)
    \/ TrainSaveJson(t)

Init == StoreInit

Next ==
    \/ StartRecommend
    \/ StartReload
    \/ StartRetrainAndReload
    \/ RemoveFile
    \/ \E t \in Threads : Step(t)

vars == <<storeVars, fusionVars, serviceVars, cacheVars>>

Spec == Init /\ [][Next]_vars

(* ------------------------ Part II: specification ------------------------ *)

\* All artifacts are loaded and no loader runs; a call of hybrid_recommend
\* with any request over any of the models has just been made.
FusionInit ==
    /\ disk = [f \in Files |-> 1]
    /\ store = [f \in Fields |-> 1]
    /\ pc = [t \in Threads |-> "idle"]
    /\ op = [t \in Threads |-> IF t = "loop" THEN "startup" ELSE "none"]
    /\ outcome = [t \in Threads |-> IF t = "loop" THEN "ok" ELSE "none"]
    /\ changed = [t \in Threads |-> IF t = "loop" THEN Fields ELSE {}]
    /\ got = NoTriple
    /\ loading = [t \in Threads |-> NoTriple]
    /\ committed = {<<1, 1, 1>>}
    /\ loadedOnce = TRUE
    /\ gen = 1
    /\ removals = 0
    /\ trained = FALSE
    /\ als \in AlsModels
    /\ req \in Requests
    /\ content = <<>>
    /\ cf = <<>>
    /\ res = <<>>
    /\ fpc = "called"
    /\ cond = Normal
    /\ call = NoCall
    /\ ret = Pending
    /\ CacheIdle

FusionNext == HybridRecommend

SpecFusion == FusionInit /\ [][FusionNext]_vars

(* ----------------------- Part III: specification ----------------------- *)

\* Indexes of three items A, B, C.
Indexes == [1..3 -> Units]

\* "Z" is an id no artifact knows.
ProductArgs == {"A", "B", "C", "Z"}

\* Candidate lists for _normalize_scores: one to three candidates.
ScoreLists ==
    UNION {[1..n -> {"A", "B", "C"} \X {Rat(1, 2), Rat(3, 4), Rat(1, 1)}] :
              n \in 1..3}

\* What hybrid_recommend may be given as query: None, an empty string, text.
GivenQueries == {NoQuery, Query(""), Query("red shoes")}

\* The fixed query of _get_trending_products, which generate_user_query
\* also returns for a profile it can build nothing from.
TrendingQuery == "popular trending products"

\* Profiles as get_user_content_profile returns them, as (feature, weight)
\* items in dict order with weights that sum to one: no interactions; one
\* product of one category; a category and a tag, the tag seen more often;
\* one product with a category, a brand, a price range and seven tags.
Profiles ==
    {<<>>,
     <<<<"category_", Rat(1, 1)>>>>,
     <<<<"category_", Rat(1, 3)>>, <<"tag_", Rat(2, 3)>>>>,
     [i \in 1..10 |->
         <<IF i = 1 THEN "category_"
           ELSE IF i = 2 THEN "brand_"
           ELSE IF i = 3 THEN "price_range_" ELSE "tag_",
           Rat(1, 10)>>]}

\* sorted(user_profile.items(), key=weight, reverse=True): stable.
RECURSIVE InsertByWeight(_, _)
InsertByWeight(sorted, e) ==
    IF sorted = <<>> THEN <<e>>
    ELSE IF RLt(Head(sorted)[2], e[2])
           THEN <<e>> \o sorted
           ELSE <<Head(sorted)>> \o InsertByWeight(Tail(sorted), e)

RECURSIVE SortByWeight(_, _)
SortByWeight(sorted, items) ==
    IF items = <<>> THEN sorted
    ELSE SortByWeight(InsertByWeight(sorted, Head(items)), Tail(items))

\* The phrase generate_user_query appends for a feature.
QueryPart(feature) ==
    IF feature = "category_" THEN "products in this category"
    ELSE IF feature = "brand_" THEN "brand products"
    ELSE IF feature = "price_range_" THEN "price range products"
    ELSE "products"

\* query_parts: the phrases of the features with weight > 0.1 among the
\* five heaviest.
RECURSIVE QueryParts(_)
QueryParts(items) ==
    IF items = <<>> THEN <<>>
    ELSE (IF RLt(Rat(1, 10), Head(items)[2])
            THEN <<QueryPart(Head(items)[1])>> ELSE <<>>)
         \o QueryParts(Tail(items))

\* " ".join(parts)
RECURSIVE Join(_)
Join(parts) ==
    IF parts = <<>> THEN ""
    ELSE IF Len(parts) = 1 THEN parts[1]
    ELSE parts[1] \o " " \o Join(Tail(parts))

\* generate_user_query(user_profile)
generate_user_query(user_profile) ==
    IF user_profile = <<>> THEN TrendingQuery
    ELSE LET query_parts ==
                 QueryParts(Take(SortByWeight(<<>>, user_profile), 5))
         IN  IF query_parts # <<>>
               THEN "recommended " \o Join(Take(query_parts, 3))
               ELSE TrendingQuery

\* if user_id and db:
Personalized(user_id, db) == user_id # NoUser /\ db

\* "Get content-based scores" of hybrid_recommend, by the text searches it
\* makes: searched lists the query strings handed to search_products in
\* order, built tells whether get_user_content_profile ran.  found is what
\* the personalized search does: it returns results, returns nothing, or
\* raises.
content_queries(c) ==
    IF c.query \notin {NoQuery, Query("")}
      THEN [built |-> FALSE, searched |-> <<c.query[1]>>]
    ELSE IF Personalized(c.user_id, c.db)
      THEN LET q == generate_user_query(c.profile)
           IN  [built |-> TRUE,
                searched |-> IF c.found = "results"
                               THEN <<q>> ELSE <<q, TrendingQuery>>]
    ELSE [built |-> FALSE, searched |-> <<TrendingQuery>>]

\* The filters of get_product_you_may_also_like: the current product and
\* the user's purchases are dropped, and the list is cut to k.
WithoutPurchased(results, product_id, purchased_ids_set, k) ==
    Take(SelectSeq(results,
                   LAMBDA e : e[1] # product_id /\ e[1] \notin purchased_ids_set),
         k)

\* The source labels of get_product_you_may_also_like.
PageSource(source) ==
    IF source = "content_only" THEN "hybrid_content"
    ELSE IF source = "collaborative_only" THEN "hybrid_collaborative"
    ELSE "hybrid"

\* get_product_you_may_also_like(product_id, user_id, k) from
\* "Content-based" to the sorted top k, given the products of the parent
\* category and the user's completed purchases; cf_results is the
\* collaborative list as fused.
get_product_you_may_also_like(m, index, product_id, user_id, category_product_ids, purchased_ids_set, k, order) ==
    LET content_results ==
            WithoutPurchased(
                find_similar_products(index, product_id, k * 2, order),
                product_id, purchased_ids_set, k)
        cf_results ==
            IF user_id # NoUser /\ category_product_ids # {}
              THEN WithoutPurchased(
                       get_user_recommendations_filtered_by_category(
                           m, user_id, category_product_ids, k * 2),
                       product_id, purchased_ids_set, k)
              ELSE <<>>
        alpha == Rat(2, 5)
        hybrid_scores ==
            AddCollaborative(
                ContentEntries(normalize_scores(content_results), alpha),
                normalize_scores(cf_results), alpha)
        sorted_results == Take(SortedDescending(<<>>, hybrid_scores), k)
    IN  [cf_results |-> cf_results,
         results |->
            [i \in 1..Len(sorted_results) |->
                [product_id |-> sorted_results[i][1],
                 hybrid_score |-> sorted_results[i][2].hybrid_score,
                 content_score |-> sorted_results[i][2].content_score,
                 cf_score |-> sorted_results[i][2].cf_score,
                 source |-> PageSource(sorted_results[i][2].source)]]]

\* Product pages: two indexes, a product of the index, the products the
\* database lists under its parent category (never the product itself) and
\* the user's purchases.
PageCalls ==
    {c \in [fn : {"get_product_you_may_also_like"},
            index : {<<<<5, 0>>, <<4, 3>>, <<3, 4>>>>,
                     <<<<5, 0>>, <<3, 4>>, <<0, 5>>>>},
            product_id : {"A", "B"}, user_id : {NoUser, "u1", "u9"},
            category : SUBSET ProductArgs, purchased : SUBSET {"B", "C"},
            k : 1..2] :
        /\ c.product_id \notin c.category
        /\ c.user_id = NoUser => c.purchased = {}}

\* .limit(20) of the three source queries.
SourceLimit == 20

\* Rows of a user in purchase_history (completed), user_wishlist and
\* user_cart, newest first, as product ids; product 99 has no embedding.
\* A product can be bought more than once.
PurchaseRows ==
    {<<>>, <<1>>, <<1, 1>>, <<2, 1>>, <<99>>, [i \in 1..(SourceLimit + 1) |-> i]}

WishlistRows == {<<>>, <<1>>, <<3>>, <<99>>}

CartRows == {<<>>, <<1>>, <<3, 4>>}

\* product_ids of the index: five products, or more than one query returns.
Catalogs == {[i \in 1..5 |-> i], [i \in 1..(SourceLimit + 3) |-> i]}

RECURSIVE Elements(_)
Elements(q) == IF q = <<>> THEN {} ELSE {Head(q)} \cup Elements(Tail(q))

\* "Combine all product IDs (with weights)".
all_product_ids(purchase_product_ids, wishlist_product_ids, cart_product_ids) ==
    [i \in 1..Len(purchase_product_ids) |->
        <<purchase_product_ids[i], Rat(3, 1)>>]
    \o [i \in 1..Len(SelectSeq(wishlist_product_ids,
                LAMBDA pid : pid \notin Elements(purchase_product_ids))) |->
        <<SelectSeq(wishlist_product_ids,
              LAMBDA pid : pid \notin Elements(purchase_product_ids))[i],
          Rat(2, 1)>>]
    \o [i \in 1..Len(SelectSeq(cart_product_ids,
                LAMBDA pid : pid \notin Elements(purchase_product_ids)
                             /\ pid \notin Elements(wishlist_product_ids))) |->
        <<SelectSeq(cart_product_ids,
              LAMBDA pid : pid \notin Elements(purchase_product_ids)
                           /\ pid \notin Elements(wishlist_product_ids))[i],
          Rat(3, 2)>>]

\* "Filter and return top k": the loop over the rows the search returned.
RECURSIVE FilterTopK(_, _, _, _, _)
FilterTopK(indices, ids, exclude_ids, seen, k) ==
    IF indices = <<>> \/ k = 0 THEN <<>>
    ELSE LET pid == ids[Head(indices) + 1]
         IN  IF pid \in exclude_ids \/ pid \in seen
               THEN FilterTopK(Tail(indices), ids, exclude_ids, seen, k)
               ELSE <<pid>> \o FilterTopK(Tail(indices), ids, exclude_ids,
                                          seen \cup {pid}, k - 1)

\* get_user_content_recommendations_from_all_sources(user_id, db, k), given
\* the user's rows and the rows of the index in the order the search ranks
\* them for the aggregated embedding.  The result lists product ids; the
\* inner products that come with them are left out.
get_user_content_recommendations_from_all_sources(purchases, wishlist, cart, ids, k, order) ==
    LET purchase_product_ids == Take(purchases, SourceLimit)
        wishlist_product_ids == Take(wishlist, SourceLimit)
        cart_product_ids == Take(cart, SourceLimit)
        weighted == all_product_ids(purchase_product_ids,
                                    wishlist_product_ids, cart_product_ids)
        embedded == SelectSeq(weighted, LAMBDA e : e[1] \in Elements(ids))
        exclude_ids == Elements(purchase_product_ids)
                           \cup Elements(wishlist_product_ids)
                           \cup Elements(cart_product_ids)
        search_k == IF k * 3 < Len(ids) THEN k * 3 ELSE Len(ids)
    IN  [all_product_ids |-> weighted,
         results |-> IF weighted = <<>> \/ embedded = <<>> THEN <<>>
                     ELSE FilterTopK(Take(order, search_k), ids, exclude_ids,
                                     {}, k)]

\* The rankings a search may produce: the rows in index order from some row
\* on, wrapping around.
SearchOrders(n) ==
    {[i \in 1..n |-> (r + i - 1) % n] : r \in {0, 1, SourceLimit}}

AllSourcesCalls ==
    [fn : {"get_user_content_recommendations_from_all_sources"},
     purchases : PurchaseRows, wishlist : WishlistRows, cart : CartRows,
     ids : Catalogs, k : 1..MaxK]

ServiceCalls ==
    [fn : {"find_similar_products"}, index : Indexes,
     product_id : ProductArgs, k : 1..MaxK]
    \cup [fn : {"get_recommendation_for_product"}, index : Indexes,
          product_id : ProductArgs, user_id : UserArgs, k : 1..MaxK]
    \cup [fn : {"get_user_recommendations"},
          user_id : UserArgs \ {NoUser}, k : 1..(MaxK + 1)]
    \cup [fn : {"get_user_recommendations_filtered_by_category"},
          user_id : UserArgs \ {NoUser}, category : SUBSET ProductArgs,
          k : 1..MaxK]
    \cup [fn : {"get_collaborative_score_with_normalization"},
          user_id : UserArgs \ {NoUser}, product_id : ProductArgs]
    \cup [fn : {"_normalize_scores"}, results : ScoreLists]
    \cup [fn : {"get_item_similar"}, product_id : ProductArgs, k : 1..MaxK]
    \cup [fn : {"get_collaborative_score"},
          user_id : UserArgs \ {NoUser}, product_id : ProductArgs]
    \cup [fn : {"hybrid_recommend.content"}, query : GivenQueries,
          user_id : {NoUser, "u1"}, db : BOOLEAN, profile : Profiles,
          found : {"results", "nothing", "raises"}]
    \cup PageCalls
    \cup AllSourcesCalls

\* hybrid_recommend calls whose text search may raise.
Conds == [query : BOOLEAN, db : BOOLEAN, search_raises : BOOLEAN]

FaultyRequests ==
    [user_id : UserArgs, sim : {<<10, 9, 0>>}, alpha : {Rat(1, 2)},
     k : 1..MaxK]

FindSimilarProducts ==
    /\ call.fn = "find_similar_products"
    /\ ret = Pending
    /\ \E order \in SimilarOrders(call.index, call.product_id) :
          ret' = Ok(find_similar_products(call.index, call.product_id,
                                          call.k, order))
    /\ UNCHANGED call
    /\ UNCHANGED outsideServices

RecommendForProduct ==
    /\ call.fn = "get_recommendation_for_product"
    /\ ret = Pending
    /\ \E order \in SimilarOrders(call.index, call.product_id) :
       \E item_order \in ItemOrders(als, call.product_id) :
          ret' = get_recommendation_for_product(
                     als,
                     find_similar_products(call.index, call.product_id,
                                           call.k * 2, order),
                     call.user_id,
                     get_item_similar(als, call.product_id, call.k * 2,
                                      item_order),
                     call.k)
    /\ UNCHANGED call
    /\ UNCHANGED outsideServices

GetUserRecommendations ==
    /\ call.fn = "get_user_recommendations"
    /\ ret = Pending
    /\ \E order \in UserOrders(als, call.user_id) :
          ret' = Ok(get_user_recommendations(als, call.user_id, call.k, order))
    /\ UNCHANGED call
    /\ UNCHANGED outsideServices

GetUserRecommendationsFiltered ==
    /\ call.fn = "get_user_recommendations_filtered_by_category"
    /\ ret = Pending
    /\ ret' = Ok(get_user_recommendations_filtered_by_category(
                     als, call.user_id, call.category, call.k))
    /\ UNCHANGED call
    /\ UNCHANGED outsideServices

GetCollaborativeScoreWithNormalization ==
    /\ call.fn = "get_collaborative_score_with_normalization"
    /\ ret = Pending
    /\ ret' = Ok(get_collaborative_score_with_normalization(
                     als, call.user_id, call.product_id))
    /\ UNCHANGED call
    /\ UNCHANGED outsideServices

NormalizeScores ==
    /\ call.fn = "_normalize_scores"
    /\ ret = Pending
    /\ ret' = Ok(normalize_scores(call.results))
    /\ UNCHANGED call
    /\ UNCHANGED outsideServices

GetItemSimilar ==
    /\ call.fn = "get_item_similar"
    /\ ret = Pending
    /\ \E order \in ItemOrders(als, call.product_id) :
          ret' = get_item_similar(als, call.product_id, call.k, order)
    /\ UNCHANGED call
    /\ UNCHANGED outsideServices

GetCollaborativeScore ==
    /\ call.fn = "get_collaborative_score"
    /\ ret = Pending
    /\ ret' = Ok(get_collaborative_score(als, call.user_id, call.product_id))
    /\ UNCHANGED call
    /\ UNCHANGED outsideServices

GetProductYouMayAlsoLike ==
    /\ call.fn = "get_product_you_may_also_like"
    /\ ret = Pending
    /\ \E order \in SimilarOrders(call.index, call.product_id) :
          ret' = Ok(get_product_you_may_also_like(
                        als, call.index, call.product_id, call.user_id,
                        call.category, call.purchased, call.k, order))
    /\ UNCHANGED call
    /\ UNCHANGED outsideServices

GetUserContentRecommendationsFromAllSources ==
    /\ call.fn = "get_user_content_recommendations_from_all_sources"
    /\ ret = Pending
    /\ \E order \in SearchOrders(Len(call.ids)) :
          ret' = Ok(get_user_content_recommendations_from_all_sources(
                        call.purchases, call.wishlist, call.cart, call.ids,
                        call.k, order))
    /\ UNCHANGED call
    /\ UNCHANGED outsideServices

\* The content branch of hybrid_recommend(user_id, query, alpha, k, db).
HybridRecommendContent ==
    /\ call.fn = "hybrid_recommend.content"
    /\ ret = Pending
    /\ ret' = Ok(content_queries(call))
    /\ UNCHANGED call
    /\ UNCHANGED outsideServices

\* All artifacts are loaded; either a scorer has just been called, or
\* hybrid_recommend has, under any circumstances.
ServicesInit ==
    /\ disk = [f \in Files |-> 1]
    /\ store = [f \in Fields |-> 1]
    /\ pc = [t \in Threads |-> "idle"]
    /\ op = [t \in Threads |-> IF t = "loop" THEN "startup" ELSE "none"]
    /\ outcome = [t \in Threads |-> IF t = "loop" THEN "ok" ELSE "none"]
    /\ changed = [t \in Threads |-> IF t = "loop" THEN Fields ELSE {}]
    /\ got = NoTriple
    /\ loading = [t \in Threads |-> NoTriple]
    /\ committed = {<<1, 1, 1>>}
    /\ loadedOnce = TRUE
    /\ gen = 1
    /\ removals = 0
    /\ trained = FALSE
    /\ als \in AlsModels
    /\ content = <<>>
    /\ cf = <<>>
    /\ res = <<>>
    /\ ret = Pending
    /\ CacheIdle
    /\ \/ /\ call \in ServiceCalls
          /\ fpc = "idle"
          /\ req = NoRequest
          /\ cond = Normal
       \/ /\ call = NoCall
          /\ fpc = "called"
          /\ req \in FaultyRequests
          /\ cond \in Conds

ServicesNext ==
    \/ FindSimilarProducts
    \/ RecommendForProduct
    \/ GetUserRecommendations
    \/ GetUserRecommendationsFiltered
    \/ GetCollaborativeScoreWithNormalization
    \/ NormalizeScores
    \/ GetItemSimilar
    \/ GetCollaborativeScore
    \/ HybridRecommendContent
    \/ GetProductYouMayAlsoLike
    \/ GetUserContentRecommendationsFromAllSources
    \/ HybridRecommend

SpecServices == ServicesInit /\ [][ServicesNext]_vars

(* ------------------ Part IV: calls from the event loop ------------------ *)

\* The payloads a caller may store: the responses get_top_pick builds.
Results == {"p1", "p2"}

\* The request get_top_pick makes for a user: no query, alpha 0.5, k 1.
TopPickRequest(user_id) ==
    [user_id |-> user_id, query |-> NoQuery, alpha |-> Rat(1, 2), k |-> 1]

TopPickUsers == {NoUser, "u1"}

\* The top-pick request of u1 and the requests that differ from it in one
\* component: no user, an empty query, the query "none", another query,
\* another alpha, another k.
CacheRequests ==
    {r \in [user_id : TopPickUsers,
            query : {NoQuery, Query(""), Query("none"), Query("tv")},
            alpha : {Rat(1, 2), Rat(3, 5)},
            k : {1, 10}] :
        Cardinality({f \in {"user_id", "query", "alpha", "k"} :
                        r[f] # TopPickRequest("u1")[f]}) <= 1}

\* The number of calls made so far: a call's first entry is marked.
Calls == Cardinality({i \in 1..Len(hist) : hist[i].first})

GetEvent(first, r, t, g) ==
    [op |-> "get", first |-> first, req |-> r, key |-> KeyOf(r), t |-> t,
     out |-> g.data, left |-> KeyOf(r) \in DOMAIN g.cache]

SetEvent(first, r, t, data) ==
    [op |-> "set", first |-> first, req |-> r, key |-> KeyOf(r), t |-> t,
     data |-> data]

\* recommendation_cache.get(user_id, query, alpha, k)
CacheGet ==
    /\ Calls < MaxCalls
    /\ \E r \in CacheRequests :
          LET g == get(cache, KeyOf(r), now)
          IN  /\ cache' = g.cache
              /\ hist' = Append(hist, GetEvent(TRUE, r, now, g))
    /\ UNCHANGED <<now, wpc, wloc>>
    /\ UNCHANGED outsideCache

\* recommendation_cache.set(user_id, query, alpha, k, data)
CacheSet ==
    /\ Calls < MaxCalls
    /\ \E r \in CacheRequests, data \in Results :
          /\ cache' = set(cache, KeyOf(r), data, now)
          /\ hist' = Append(hist, SetEvent(TRUE, r, now, data))
    /\ UNCHANGED <<now, wpc, wloc>>
    /\ UNCHANGED outsideCache

\* recommendation_cache.clear()
CacheClear ==
    /\ Calls < MaxCalls
    /\ cache' = <<>>
    /\ hist' = Append(hist, [op |-> "clear", first |-> TRUE])
    /\ UNCHANGED <<now, wpc, wloc>>
    /\ UNCHANGED outsideCache

\* recommendation_cache.cleanup_expired()
CleanupExpired ==
    /\ Calls < MaxCalls
    /\ LET c == cleanup_expired(cache, now)
       IN  /\ cache' = c.cache
           /\ hist' = Append(hist, [op |-> "cleanup", first |-> TRUE,
                                    t |-> now, n |-> c.n])
    /\ UNCHANGED <<now, wpc, wloc>>
    /\ UNCHANGED outsideCache

\* Time passes.
Tick ==
    /\ \E t \in Instants : t > now /\ now' = t
    /\ UNCHANGED <<cache, hist, wpc, wloc>>
    /\ UNCHANGED outsideCache

\* What a request that missed the cache comes to: the response built from
\* the recommender's first result or from the random fallback product, or
\* status 500 when neither is to be had.
TopPickOutcomes == {[status |-> 200, data |-> d] : d \in Results}
                       \cup {[status |-> 500, data |-> "500"]}

\* GET /api/recommendations/top-pick.  The handler has no await: no other
\* handler runs between its get and its set, but time passes while the
\* recommender and the database work.
GetTopPick ==
    /\ Calls < MaxCalls
    /\ \E user_id \in TopPickUsers, built \in TopPickOutcomes,
          done \in Instants :
          LET r == TopPickRequest(user_id)
              g == get(cache, KeyOf(r), now)
              begin == <<[op |-> "top_pick", first |-> TRUE,
                          user_id |-> user_id, t |-> now],
                         GetEvent(FALSE, r, now, g)>>
              respond(t, out, scored) ==
                  [op |-> "respond", first |-> FALSE, user_id |-> user_id,
                   began |-> now, t |-> t, out |-> out, scored |-> scored]
              score == [op |-> "score", first |-> FALSE,
                        user_id |-> user_id]
          IN  IF g.data # Miss
                THEN /\ cache' = g.cache
                     /\ now' = now
                     /\ hist' = hist \o begin
                                   \o <<respond(now, g.data, FALSE)>>
                ELSE /\ done >= now
                     /\ now' = done
                     /\ IF built.status = 200
                          THEN /\ cache' = set(g.cache, KeyOf(r),
                                               built.data, done)
                               /\ hist' = hist \o begin \o
                                     <<score,
                                       SetEvent(FALSE, r, done, built.data),
                                       respond(done, built.data, TRUE)>>
                          ELSE /\ cache' = g.cache
                               /\ hist' = hist \o begin \o
                                     <<score, respond(done, "500", TRUE)>>
    /\ UNCHANGED <<wpc, wloc>>
    /\ UNCHANGED outsideCache

\* Everything outside the cache while only the cache is modelled: the
\* artifacts are loaded, no loader and no scorer call runs.
OutsideCacheIdle ==
    /\ disk = [f \in Files |-> 1]
    /\ store = [f \in Fields |-> 1]
    /\ pc = [t \in Threads |-> "idle"]
    /\ op = [t \in Threads |-> IF t = "loop" THEN "startup" ELSE "none"]
    /\ outcome = [t \in Threads |-> IF t = "loop" THEN "ok" ELSE "none"]
    /\ changed = [t \in Threads |-> IF t = "loop" THEN Fields ELSE {}]
    /\ got = NoTriple
    /\ loading = [t \in Threads |-> NoTriple]
    /\ committed = {<<1, 1, 1>>}
    /\ loadedOnce = TRUE
    /\ gen = 1
    /\ removals = 0
    /\ trained = FALSE
    /\ als = NoModel
    /\ req = NoRequest
    /\ content = <<>>
    /\ cf = <<>>
    /\ res = <<>>
    /\ fpc = "idle"
    /\ cond = Normal
    /\ call = NoCall
    /\ ret = Pending

CacheInit == OutsideCacheIdle /\ CacheIdle

CacheNext ==
    \/ CacheGet
    \/ CacheSet
    \/ CacheClear
    \/ CleanupExpired
    \/ Tick
    \/ GetTopPick

SpecCache == CacheInit /\ [][CacheNext]_vars

(* ------------------ Part IV: calls from worker threads ------------------ *)

\* The keys the workers use: those of the top-pick requests.
WorkerKeys == {KeyOf(TopPickRequest(user_id)) : user_id \in TopPickUsers}

\* Worker w enters a method with fresh locals.
Enter(w, l, locals) ==
    /\ wpc[w] = "idle"
    /\ wloc[w].calls < MaxWorkerCalls
    /\ wpc' = [wpc EXCEPT ![w] = l]
    /\ wloc' = [wloc EXCEPT ![w] =
                   [locals EXCEPT !.calls = wloc[w].calls + 1]]

\* Worker w moves to l with its locals changed to locals.
Move(w, l, locals) ==
    /\ wpc' = [wpc EXCEPT ![w] = l]
    /\ wloc' = [wloc EXCEPT ![w] = locals]

\* The statement worker w runs raises exc.
Raises(w, exc) ==
    /\ Move(w, "raised", [wloc[w] EXCEPT !.exc = exc])
    /\ UNCHANGED cache

\* get: key = self._make_key(...)
CallGet(w) ==
    /\ \E key \in WorkerKeys : Enter(w, "get_in", [NoLocals EXCEPT !.key = key])
    /\ UNCHANGED <<cache, now, hist>>
    /\ UNCHANGED outsideCache

\* get: if key in self.cache
GetContains(w) ==
    /\ wpc[w] = "get_in"
    /\ IF wloc[w].key \in DOMAIN cache
         THEN Move(w, "get_read", wloc[w])
         ELSE Move(w, "idle", wloc[w])
    /\ UNCHANGED <<cache, now, hist>>
    /\ UNCHANGED outsideCache

\* get: data, timestamp = self.cache[key]
GetRead(w) ==
    /\ wpc[w] = "get_read"
    /\ IF wloc[w].key \in DOMAIN cache
         THEN /\ Move(w, "get_ttl",
                      [wloc[w] EXCEPT !.data = cache[wloc[w].key][1],
                                      !.timestamp = cache[wloc[w].key][2]])
              /\ UNCHANGED cache
         ELSE Raises(w, "KeyError")
    /\ UNCHANGED <<now, hist>>
    /\ UNCHANGED outsideCache

\* get: if time.time() - timestamp < self.ttl_seconds: return data
GetCheck(w) ==
    /\ wpc[w] = "get_ttl"
    /\ IF Fresh(now, wloc[w].timestamp)
         THEN Move(w, "idle", wloc[w])
         ELSE Move(w, "get_del", wloc[w])
    /\ UNCHANGED <<cache, now, hist>>
    /\ UNCHANGED outsideCache

\* get: del self.cache[key]; return None
GetDelete(w) ==
    /\ wpc[w] = "get_del"
    /\ IF wloc[w].key \in DOMAIN cache
         THEN /\ cache' = Del(cache, wloc[w].key)
              /\ Move(w, "idle", wloc[w])
         ELSE Raises(w, "KeyError")
    /\ UNCHANGED <<now, hist>>
    /\ UNCHANGED outsideCache

\* set: self.cache[key] = (data, time.time())
CallSet(w) ==
    /\ \E key \in WorkerKeys, data \in Results :
          /\ Enter(w, "idle", [NoLocals EXCEPT !.key = key, !.data = data])
          /\ cache' = set(cache, key, data, now)
          /\ hist' = Append(hist, [op |-> "set", first |-> TRUE, key |-> key,
                                   t |-> now, data |-> data])
    /\ UNCHANGED now
    /\ UNCHANGED outsideCache

\* cleanup_expired: current_time = time.time(); the iterator over
\* self.cache.items() is created and remembers the size of the dictionary.
CallCleanup(w) ==
    /\ Enter(w, "cleanup_iter",
             [NoLocals EXCEPT !.current_time = now,
                              !.size = Cardinality(DOMAIN cache),
                              !.todo = DOMAIN cache])
    /\ UNCHANGED <<cache, now, hist>>
    /\ UNCHANGED outsideCache

\* cleanup_expired: one step of the for loop over self.cache.items().  The
\* iterator raises RuntimeError when the dictionary has changed size since
\* it was created; otherwise it yields the next entry, or ends the loop.
CleanupNext(w) ==
    /\ wpc[w] = "cleanup_iter"
    /\ IF Cardinality(DOMAIN cache) # wloc[w].size
         THEN Raises(w, "RuntimeError")
         ELSE /\ UNCHANGED cache
              /\ IF wloc[w].todo = {}
                   THEN Move(w, "cleanup_del", wloc[w])
                   ELSE \E key \in wloc[w].todo :
                           Move(w, "cleanup_iter",
                                [wloc[w] EXCEPT
                                    !.todo = @ \ {key},
                                    !.expired_keys =
                                        IF /\ key \in DOMAIN cache
                                           /\ ~Fresh(wloc[w].current_time,
                                                     cache[key][2])
                                          THEN Append(@, key) ELSE @])
    /\ UNCHANGED <<now, hist>>
    /\ UNCHANGED outsideCache

\* cleanup_expired: for key in expired_keys: del self.cache[key]
CleanupDelete(w) ==
    /\ wpc[w] = "cleanup_del"
    /\ IF wloc[w].expired_keys = <<>>
         THEN /\ Move(w, "idle", wloc[w])
              /\ UNCHANGED cache
         ELSE IF Head(wloc[w].expired_keys) \in DOMAIN cache
                THEN /\ cache' = Del(cache, Head(wloc[w].expired_keys))
                     /\ Move(w, "cleanup_del",
                             [wloc[w] EXCEPT !.expired_keys = Tail(@)])
                ELSE Raises(w, "KeyError")
    /\ UNCHANGED <<now, hist>>
    /\ UNCHANGED outsideCache

WorkersInit == OutsideCacheIdle /\ CacheIdle

WorkersNext ==
    \/ \E w \in Workers :
          \/ CallGet(w)
          \/ GetContains(w)
          \/ GetRead(w)
          \/ GetCheck(w)
          \/ GetDelete(w)
          \/ CallSet(w)
          \/ CallCleanup(w)
          \/ CleanupNext(w)
          \/ CleanupDelete(w)
    \/ Tick

SpecWorkers == WorkersInit /\ [][WorkersNext]_vars

(* --------------- Part V: calls with artifacts not loaded ---------------- *)

\* s with the fields fs assigned from their files on disk d.
Assigned(s, d, fs) ==
    [f \in Fields |->
        IF f \in fs
          THEN CASE f = "faiss_index" -> d["faiss_products.index"]
                 [] f = "product_ids" -> d["product_ids.npy"]
                 [] f = "sentence_transformer" -> 1
                 [] f = "user_factors" -> d["user_factors.npy"]
                 [] f = "item_factors" -> d["item_factors.npy"]
                 [] f = "als_mappings" -> d["als_mappings.json"]
          ELSE s[f]]

\* load_models() run without interruption over disk d: the store it leaves
\* and the exception it raises ("none": it returned).  The three loaders run
\* in order; the first that raises ends the call, what the earlier ones
\* assigned stays.
load_models(s, d, reachable) ==
    IF d["faiss_products.index"] = None \/ d["product_ids.npy"] = None
      THEN [store |-> s, raised |-> "FileNotFoundError"]
    ELSE IF d["sentence_transformer_model"] = None /\ ~reachable
      THEN [store |-> Assigned(s, d, {"faiss_index", "product_ids"}),
            raised |-> "OSError"]
    ELSE IF \E f \in AlsFiles : d[f] = None
      THEN [store |-> Assigned(s, d, {"faiss_index", "product_ids",
                                      "sentence_transformer"}),
            raised |-> "FileNotFoundError"]
    ELSE [store |-> Assigned(s, d, Fields), raised |-> "none"]

\* The stores a process can be left with by its startup load: the fields
\* of the loaders that completed, in order.
LazyStores ==
    {[f \in Fields |-> IF f \in fs THEN 1 ELSE None] :
        fs \in {{}, {"faiss_index", "product_ids"},
                {"faiss_index", "product_ids", "sentence_transformer"},
                Fields}}

LazyCalls ==
    [fn : {"get_user_recommendations"}, user_id : UserArgs \ {NoUser},
     k : 1..MaxK, loaded : SUBSET Fields]
    \cup [fn : {"search_products"}, sim : {<<10, 9, 0>>, <<9, 9, 9>>},
          k : 1..MaxK, loaded : SUBSET Fields]

\* CollaborativeService.get_user_recommendations: the RuntimeError of the
\* getter is caught and an empty list returned.
LazyGetUserRecommendations ==
    /\ call.fn = "get_user_recommendations"
    /\ ret = Pending
    /\ IF get_als_factors(store) = NotLoaded
         THEN ret' = Ok(<<>>)
         ELSE \E order \in UserOrders(als, call.user_id) :
                 ret' = Ok(get_user_recommendations(als, call.user_id, call.k,
                                                    order))
    /\ UNCHANGED <<call, storeVars, fusionVars, cacheVars>>

\* ContentBasedService.search_products: embed_query and the index lookup
\* each answer the getter's RuntimeError by load_models() and a second get;
\* what load_models() raises leaves search_products.
LazySearchProducts ==
    /\ call.fn = "search_products"
    /\ ret = Pending
    /\ \E reachable \in BOOLEAN, order \in ArgsortDescending(call.sim) :
          LET first == IF get_sentence_transformer(store) = NotLoaded
                         THEN load_models(store, disk, reachable)
                         ELSE [store |-> store, raised |-> "none"]
              second == IF first.raised # "none" THEN first
                        ELSE IF \/ get_faiss_index(first.store) = NotLoaded
                                \/ get_product_ids(first.store) = NotLoaded
                          THEN load_models(first.store, disk, reachable)
                          ELSE first
          IN  /\ store' = second.store
              /\ ret' = IF second.raised # "none"
                          THEN Raise(second.raised)
                          ELSE Ok(search_products(call.sim, call.k, order))
    /\ UNCHANGED <<disk, pc, op, outcome, changed, got, loading, committed,
                   loadedOnce, gen, removals, trained>>
    /\ UNCHANGED <<call, fusionVars, cacheVars>>

\* A scorer has just been called in a process whose startup load got as
\* far as it got; the artifacts directory holds any subset of the files.
LazyInit ==
    /\ disk \in [Files -> {None, 1}]
    /\ store \in LazyStores
    /\ pc = [t \in Threads |-> "idle"]
    /\ op = [t \in Threads |-> IF t = "loop" THEN "startup" ELSE "none"]
    /\ outcome = [t \in Threads |->
                     IF t # "loop" THEN "none"
                     ELSE IF \A f \in Fields : store[f] # None THEN "ok"
                     ELSE IF store["faiss_index"] # None
                             /\ store["sentence_transformer"] = None
                       THEN "OSError" ELSE "not_found"]
    /\ changed = [t \in Threads |->
                     IF t = "loop" THEN {f \in Fields : store[f] # None}
                     ELSE {}]
    /\ got = NoTriple
    /\ loading = [t \in Threads |-> NoTriple]
    /\ committed = IF store["als_mappings"] # None THEN {<<1, 1, 1>>} ELSE {}
    /\ loadedOnce = (\A f \in Fields : store[f] # None)
    /\ gen = 1
    /\ removals = 0
    /\ trained = FALSE
    /\ als \in AlsModels
    /\ req = NoRequest
    /\ content = <<>>
    /\ cf = <<>>
    /\ res = <<>>
    /\ fpc = "idle"
    /\ cond = Normal
    /\ call \in LazyCalls
    /\ call.loaded = {f \in Fields : store[f] # None}
    /\ ret = Pending
    /\ CacheIdle

LazyNext ==
    \/ LazyGetUserRecommendations
    \/ LazySearchProducts

SpecLazy == LazyInit /\ [][LazyNext]_vars

(* --------------------------- Part I: claims ---------------------------- *)

\* C1: load() is all-or-nothing: a load_models() call that raised because a
\* required file is missing has changed no field of the store.
C1_LoadAllOrNothing ==
    \A t \in Threads :
        (op[t] \in LoadOps /\ outcome[t] = "not_found") => changed[t] = {}

\* C2: every triple returned by get_als_factors() is one that a single
\* completed _load_als_factors read (the whole old or the whole new
\* generation), never a mix of components of two loads.
C2_ReadSeesWholeTriple ==
    (op["loop"] = "recommend" /\ pc["loop"] = "idle" /\ outcome["loop"] = "ok")
        => got \in committed

\* C3: handling a recommendation request performs no load and leaves every
\* field of the store unchanged.
C3_RequestLeavesStoreUnchanged ==
    op["loop"] = "recommend" => changed["loop"] = {}

\* C4: as long as no load_models() call has completed successfully, every
\* getter fails with the "not loaded" error.
C4_NotLoadedUntilLoadSucceeds ==
    (~loadedOnce /\ \A t \in Threads : pc[t] = "idle") =>
        /\ get_faiss_index(store) = NotLoaded
        /\ get_product_ids(store) = NotLoaded
        /\ get_sentence_transformer(store) = NotLoaded
        /\ get_als_factors(store) = NotLoaded

\* C5: a reload of the collaborative group that finds one of its three
\* files absent fails with the not-found error and has changed none of
\* user_factors, item_factors, als_mappings.
C5_ReloadMissingFileKeepsPrevious ==
    \A t \in Threads :
        (op[t] \in {"reload", "retrain_reload"} /\ outcome[t] = "not_found")
            => /\ changed[t] = {}
               /\ pc[t] = "idle"

\* C5 witness: a reload has failed with not-found while a previously loaded
\* generation is in the store and still served by get_als_factors.
C5_Witness ==
    /\ op["loop"] = "reload"
    /\ outcome["loop"] = "not_found"
    /\ get_als_factors(store) # NotLoaded
    /\ \E file \in AlsFiles : disk[file] = None

(* --------------------------- Part II: claims ---------------------------- *)

\* The item occurs in a branch's candidate list.
InBranch(results, pid) == \E i \in 1..Len(results) : results[i][1] = pid

\* The weighted sum (1 - alpha) * content_score + alpha * cf_score.
WeightedSum(alpha, content_score, cf_score) ==
    RAdd(RMul(RSub(One, alpha), content_score), RMul(alpha, cf_score))

C7_FusionIdentity ==
    fpc = "returned" =>
        \A i \in 1..Len(res) :
            /\ (req.alpha = Zero /\ InBranch(cf, res[i].product_id))
                  => res[i].hybrid_score =
                         DictGet(normalize_scores(cf), res[i].product_id)
            /\ (req.alpha = One /\ InBranch(content, res[i].product_id))
                  => res[i].hybrid_score =
                         DictGet(normalize_scores(content), res[i].product_id)

\* The call of the end-to-end example: the index rows score 1.0, 0.9, 0.0
\* against the query, the user's raw collaborative scores are 5, 3, 1,
\* alpha = 0.5 and k is large enough for all three items.
EndToEndCall ==
    /\ fpc = "returned"
    /\ req.sim = <<10, 9, 0>>
    /\ req.user_id = "u1"
    /\ AllScores(als, als.user_factors[1]) = <<5, 3, 1>>
    /\ req.alpha = Rat(1, 2)
    /\ req.k >= 3

\* The ids and hybrid scores of the returned list.
Ranking == [i \in 1..Len(res) |-> <<res[i].product_id, res[i].hybrid_score>>]

C9_LabelByNonZeroScores ==
    fpc = "returned" =>
        \A i \in 1..Len(res) :
            /\ res[i].source = "hybrid"
                  <=> (res[i].content_score # Zero /\ res[i].cf_score # Zero)
            /\ res[i].source = "content_only"
                  <=> (res[i].content_score # Zero /\ res[i].cf_score = Zero)
            /\ res[i].source = "collaborative_only"
                  <=> (res[i].content_score = Zero /\ res[i].cf_score # Zero)

\* C10: for a user id absent from user_id_to_idx the collaborative branch
\* is skipped, and every returned item has source content_only and
\* cf_score 0, whatever the query, alpha and k.
C10_ColdUserContentOnly ==
    (fpc = "returned" /\ req.user_id # NoUser
        /\ req.user_id \notin DOMAIN als.user_id_to_idx)
        => /\ cf = <<>>
           /\ \A i \in 1..Len(res) :
                 /\ res[i].source = "content_only"
                 /\ res[i].cf_score = Zero

\* C10 witness: a call for the cold user returned several items.
C10_Witness ==
    /\ fpc = "returned"
    /\ req.user_id = "u9"
    /\ Len(res) >= 2

\* The ids of the merged candidates, and for each its position of first
\* appearance (content list first, then the collaborative list) and the
\* hybrid score of its branch-normalized scores.
Candidates ==
    {content[i][1] : i \in 1..Len(content)} \cup {cf[i][1] : i \in 1..Len(cf)}

FirstSeen(pid) ==
    LET both == content \o cf
    IN  CHOOSE i \in 1..Len(both) :
            /\ both[i][1] = pid
            /\ \A j \in 1..(i - 1) : both[j][1] # pid

CandidateScore(pid, content_scores, cf_scores) ==
    WeightedSum(req.alpha,
                IF DictHas(content_scores, pid)
                  THEN DictGet(content_scores, pid) ELSE Zero,
                IF DictHas(cf_scores, pid)
                  THEN DictGet(cf_scores, pid) ELSE Zero)

\* The candidate of score sp first seen at fp ranks before the one of score
\* sq first seen at fq: a higher hybrid score, or the same and seen first.
RanksBefore(sp, fp, sq, fq) == RLt(sq, sp) \/ (sq = sp /\ fp < fq)

\* C16: hybrid_recommend returns at most k results, no id twice, sorted by
\* non-increasing hybrid_score with ties in first-seen order, and they are
\* the k best of the merged candidates.
C16_RankedTopK ==
    fpc = "returned" =>
        LET content_scores == normalize_scores(content)
            cf_scores == normalize_scores(cf)
            ranked == {<<pid, CandidateScore(pid, content_scores, cf_scores),
                         FirstSeen(pid)>> : pid \in Candidates}
            score == [pid \in Candidates |->
                         (CHOOSE c \in ranked : c[1] = pid)[2]]
            seen == [pid \in Candidates |->
                        (CHOOSE c \in ranked : c[1] = pid)[3]]
            ids == [i \in 1..Len(res) |-> res[i].product_id]
        IN  /\ Len(res) = IF req.k < Cardinality(Candidates)
                            THEN req.k ELSE Cardinality(Candidates)
            /\ \A i, j \in 1..Len(res) : i # j => ids[i] # ids[j]
            /\ \A i \in 1..Len(res) :
                  /\ ids[i] \in Candidates
                  /\ res[i].hybrid_score = score[ids[i]]
            /\ \A i \in 1..(Len(res) - 1) :
                  RanksBefore(score[ids[i]], seen[ids[i]],
                              score[ids[i + 1]], seen[ids[i + 1]])
            /\ \A pid \in Candidates :
                  (\A i \in 1..Len(res) : ids[i] # pid)
                     => \A i \in 1..Len(res) :
                           RanksBefore(score[ids[i]], seen[ids[i]],
                                       score[pid], seen[pid])

\* C16 witness: a call returned two items of equal hybrid score next to
\* each other and cut a candidate off.
C16_Witness ==
    /\ fpc = "returned"
    /\ Len(res) < Cardinality(Candidates)
    /\ \E i \in 1..(Len(res) - 1) :
          res[i].hybrid_score = res[i + 1].hybrid_score

(* --------------------------- Part III: claims --------------------------- *)

\* C11: graceful degradation: an exception raised inside one branch of
\* hybrid_recommend or get_recommendation_for_product becomes an empty
\* contribution of that branch and never leaves the function.
C11_GracefulDegradation ==
    /\ fpc # "raised"
    /\ call.fn = "get_recommendation_for_product" => ret[1] # "raise"

\* C12: for an id of the id array and any k >= 1, find_similar_products
\* returns at most k entries and none of them is the id itself, also when
\* k + 1 exceeds the number of indexed items.
C12_SimilarExcludesSelf ==
    (/\ call.fn = "find_similar_products"
     /\ ret # Pending
     /\ call.product_id \in {"A", "B", "C"})
        => /\ Len(ret[2]) <= call.k
           /\ \A i \in 1..Len(ret[2]) : ret[2][i][1] # call.product_id

\* The raw collaborative scores of the items a call returned, in order.
ReturnedRaw ==
    [i \in 1..Len(ret[2]) |->
        get_collaborative_score(als, call.user_id, ret[2][i][1])]

\* The raw scores of all items of the model for the user of the call.
PopulationRaw ==
    {get_collaborative_score(als, call.user_id, p) :
        p \in DOMAIN als.item_id_to_idx}

Least(S) == CHOOSE x \in S : \A y \in S : RLeq(x, y)

Greatest(S) == CHOOSE x \in S : \A y \in S : RLeq(y, x)

\* 0.5 + 0.5 * (raw - min) / (max - min) over the population S.
HalfScaled(raw, S) ==
    RAdd(Rat(1, 2),
         RMul(Rat(1, 2),
              RDiv(RSub(raw, Least(S)), RSub(Greatest(S), Least(S)))))

\* The raw scores of the category's items the model knows.
CategoryRaw ==
    {get_collaborative_score(als, call.user_id, p) :
        p \in call.category \cap DOMAIN als.item_id_to_idx}

\* The scores of a candidate list.
ScoresOf(results) == {results[i][2] : i \in 1..Len(results)}

C15_DegenerateRange ==
    /\ (/\ call.fn = "_normalize_scores"
        /\ ret # Pending
        /\ Cardinality(ScoresOf(call.results)) = 1)
          => /\ Len(ret[2]) >= 1
             /\ \A i \in 1..Len(ret[2]) : ret[2][i][2] = One
    /\ (/\ call.fn = "get_user_recommendations"
        /\ ret # Pending
        /\ call.user_id \in DOMAIN als.user_id_to_idx
        /\ Cardinality(PopulationRaw) = 1)
          => /\ Len(ret[2]) >= 1
             /\ \A i \in 1..Len(ret[2]) : ret[2][i][2] = Rat(9, 10)
    /\ (/\ call.fn = "get_user_recommendations_filtered_by_category"
        /\ ret # Pending
        /\ call.user_id \in DOMAIN als.user_id_to_idx
        /\ Cardinality(CategoryRaw) = 1)
          => /\ Len(ret[2]) >= 1
             /\ \A i \in 1..Len(ret[2]) : ret[2][i][2] = Rat(9, 10)
    /\ (/\ call.fn = "get_collaborative_score_with_normalization"
        /\ ret # Pending
        /\ call.user_id \in DOMAIN als.user_id_to_idx
        /\ call.product_id \in DOMAIN als.item_id_to_idx
        /\ Cardinality(PopulationRaw) = 1)
          => ret[2][2] = Rat(3, 4)

\* C15 witness: get_collaborative_score_with_normalization has returned for
\* a user whose raw scores over all items are equal.
C15_Witness ==
    /\ call.fn = "get_collaborative_score_with_normalization"
    /\ ret # Pending
    /\ call.user_id \in DOMAIN als.user_id_to_idx
    /\ call.product_id \in DOMAIN als.item_id_to_idx
    /\ Cardinality(PopulationRaw) = 1
    /\ Cardinality(DOMAIN als.item_id_to_idx) = 3

(* --------------------------- Part IV: claims ---------------------------- *)

\* The calls before entry i that wrote what entry i reads: a clear, or a set
\* that agrees with entry i in the given field ("req": the same logical
\* request; "key": the same cache key).
PriorWrites(i, field) ==
    {j \in 1..(i - 1) :
        \/ hist[j].op = "clear"
        \/ hist[j].op = "set" /\ hist[j][field] = hist[i][field]}

Last(S) == CHOOSE j \in S : \A k \in S : k <= j

\* C17: distinct logical requests never share a cache key, so a set for one
\* request never changes what get returns for another: whatever a get
\* returns was stored by the latest set for the same (user_id, query,
\* alpha, k), less than ttl_seconds before.
C17_KeyInjective ==
    \A i \in 1..Len(hist) :
        (hist[i].op = "get" /\ hist[i].out # Miss)
            => LET W == PriorWrites(i, "req")
               IN  /\ W # {}
                   /\ hist[Last(W)].op = "set"
                   /\ hist[Last(W)].data = hist[i].out
                   /\ hist[i].t - hist[Last(W)].t < ttl_seconds

\* C18: after set(u, q, alpha, k, r) at time t with no later set or clear
\* for that key, a get at t' returns r when t' - t < TTL; when t' - t >= TTL
\* it returns a miss and the entry is gone from the map afterwards.
C18_TtlExpiry ==
    \A i \in 1..Len(hist) :
        hist[i].op = "get"
            => LET W == PriorWrites(i, "key")
               IN  (W # {} /\ hist[Last(W)].op = "set")
                      => IF hist[i].t - hist[Last(W)].t < ttl_seconds
                           THEN hist[i].out = hist[Last(W)].data
                           ELSE hist[i].out = Miss /\ ~hist[i].left

\* C18 witness: a get call found the entry of its key, set ttl_seconds or
\* more before, and returned a miss.
C18_Witness ==
    \E i \in 1..Len(hist) :
        /\ hist[i].op = "get"
        /\ hist[i].first
        /\ PriorWrites(i, "key") # {}
        /\ hist[Last(PriorWrites(i, "key"))].op = "set"
        /\ hist[i].t - hist[Last(PriorWrites(i, "key"))].t >= ttl_seconds
        /\ hist[i].out = Miss

\* The responses of the top-pick endpoint so far.
Responses == {i \in 1..Len(hist) : hist[i].op = "respond"}

\* Between entries i and j, a direct call cleared the cache or overwrote
\* the entry of the user's top-pick request.
Overwritten(i, j) ==
    \E m \in (i + 1)..(j - 1) :
        /\ hist[m].first
        /\ \/ hist[m].op = "clear"
           \/ /\ hist[m].op = "set"
              /\ hist[m].key = KeyOf(TopPickRequest(hist[i].user_id))

C20_WorkersNeverRaise ==
    /\ \A w \in Workers : wpc[w] # "raised"
    /\ \A key \in DOMAIN cache :
          \E i \in 1..Len(hist) :
             /\ hist[i].op = "set"
             /\ hist[i].key = key
             /\ cache[key] = <<hist[i].data, hist[i].t>>

(* --------------------------- Part V: claims ----------------------------- *)

\* C21: an unknown id is a no-signal outcome, never an error:
\* get_collaborative_score returns 0.0 when either id is absent from the
\* mappings, get_user_recommendations returns an empty list for an unknown
\* user, get_item_similar for an unknown item, and find_similar_products
\* for an id absent from the id array.
C21_UnknownIdIsNoSignal ==
    ret # Pending =>
        /\ (/\ call.fn = "get_collaborative_score"
            /\ \/ call.user_id \notin DOMAIN als.user_id_to_idx
               \/ call.product_id \notin DOMAIN als.item_id_to_idx)
              => ret = Ok(Zero)
        /\ (/\ call.fn = "get_user_recommendations"
            /\ call.user_id \notin DOMAIN als.user_id_to_idx)
              => ret = Ok(<<>>)
        /\ (/\ call.fn = "get_item_similar"
            /\ call.product_id \notin DOMAIN als.item_id_to_idx)
              => ret = Ok(<<>>)
        /\ (/\ call.fn = "find_similar_products"
            /\ call.product_id \notin {"A", "B", "C"})
              => ret = Ok(<<>>)

\* C21 witness: get_collaborative_score has returned for a known user and
\* an item the mappings do not hold.
C21_Witness ==
    /\ call.fn = "get_collaborative_score"
    /\ ret # Pending
    /\ call.user_id \in DOMAIN als.user_id_to_idx
    /\ call.product_id \notin DOMAIN als.item_id_to_idx

\* C22: when the collaborative artifacts are not loaded,
\* get_user_recommendations returns an empty list instead of raising, for
\* every user id and k.
C22_NotLoadedGivesEmptyList ==
    (/\ call.fn = "get_user_recommendations"
     /\ ret # Pending
     /\ \E f \in AlsFields : store[f] = None)
        => ret = Ok(<<>>)

\* C22 witness: the call has returned for a user the artifacts on disk know,
\* with the collaborative artifacts not loaded.
C22_Witness ==
    /\ call.fn = "get_user_recommendations"
    /\ ret # Pending
    /\ store["user_factors"] = None
    /\ call.user_id \in DOMAIN als.user_id_to_idx

\* C23: when the encoder is not loaded, the text search of the content
\* scorer returns an empty list instead of raising, for every query and k.
C23_EncoderNotLoadedGivesEmptyList ==
    (/\ call.fn = "search_products"
     /\ ret # Pending
     /\ "sentence_transformer" \notin call.loaded)
        => ret = Ok(<<>>)


\* C24: in the content branch of hybrid_recommend a supplied query is
\* searched as given; without one, a supplied user id always has the profile
\* built and, when the profile is non-empty, the query derived from it is
\* the one searched first; and the fixed trending query is searched only
\* when the profile is empty, when the personalized search raised or
\* returned nothing, or when neither a query nor a user id was supplied.
C24_ContentDecisionTree ==
    (call.fn = "hybrid_recommend.content" /\ ret # Pending)
        => LET out == ret[2]
               supplied == call.query \notin {NoQuery, Query("")}
           IN  /\ supplied => out.searched = <<call.query[1]>>
               /\ (~supplied /\ call.user_id # NoUser)
                     => /\ out.built
                        /\ call.profile # <<>>
                              => Head(out.searched)
                                     = generate_user_query(call.profile)
               /\ (~supplied
                   /\ \E i \in 1..Len(out.searched) :
                         out.searched[i] = TrendingQuery)
                     => \/ call.user_id = NoUser
                        \/ call.profile = <<>>
                        \/ call.found \in {"nothing", "raises"}


\* C25: when hybrid_recommend is called without a user id and the
\* collaborative artifacts are loaded, the collaborative candidates are
\* exactly the 2k items with the largest item-factor row sums, each under
\* the id that idx_to_item_id, as loaded from the mapping file, gives its
\* row and scored by that sum; the random sample is not used.
C25_PopularCandidates ==
    (fpc = "returned" /\ req.user_id = NoUser)
        => \E order \in ArgsortDescending(PopularityScores(als)) :
              LET pop == PopularityScores(als)
                  top == Take(order, req.k * 2)
              IN  cf = [i \in 1..Len(top) |->
                           <<als.idx_to_item_id[StrKey(top[i])],
                             Rat(pop[top[i] + 1], 1)>>]


\* C26: on the product page every collaborative candidate is a product of
\* the parent category the caller supplied, the collaborative score of a
\* result is the candidate's score normalized with the minimum and maximum
\* of the whole scored category subset, and the fused score of every result
\* is 0.6 x content + 0.4 x collaborative.
C26_CategoryConstrained ==
    (call.fn = "get_product_you_may_also_like" /\ ret # Pending)
        => LET out == ret[2]
               scored == get_user_recommendations_filtered_by_category(
                             als, call.user_id, call.category,
                             Cardinality(call.category))
           IN  /\ \A i \in 1..Len(out.cf_results) :
                     out.cf_results[i][1] \in call.category
               /\ \A i \in 1..Len(out.results) :
                     LET r == out.results[i]
                     IN  /\ InBranch(out.cf_results, r.product_id)
                               => r.cf_score = DictGet(scored, r.product_id)
                         /\ r.hybrid_score =
                                RAdd(RMul(Rat(3, 5), r.content_score),
                                     RMul(Rat(2, 5), r.cf_score))


\* The weight of the heaviest source that holds the product.
SourceWeight(pid) ==
    IF pid \in Elements(call.purchases) THEN Rat(3, 1)
    ELSE IF pid \in Elements(call.wishlist) THEN Rat(2, 1)
    ELSE Rat(3, 2)

\* C27: get_user_content_recommendations_from_all_sources never returns a
\* product of the user's purchases, wishlist or cart, returns each id at
\* most once and at most k ids, counts a product found in several sources
\* once, with the weight of its heaviest source, and returns the empty list
\* when no source product has an embedding.
C27_AllSources ==
    (call.fn = "get_user_content_recommendations_from_all_sources"
     /\ ret # Pending)
        => LET out == ret[2]
               owned == Elements(call.purchases) \cup Elements(call.wishlist)
                            \cup Elements(call.cart)
               several == {pid \in owned :
                              Cardinality({src \in {"purchases", "wishlist",
                                                    "cart"} :
                                  pid \in Elements(call[src])}) > 1}
           IN  /\ \A i \in 1..Len(out.results) : out.results[i] \notin owned
               /\ \A i, j \in 1..Len(out.results) :
                     i # j => out.results[i] # out.results[j]
               /\ Len(out.results) <= call.k
               /\ \A pid \in several :
                     /\ Cardinality({i \in 1..Len(out.all_product_ids) :
                            out.all_product_ids[i][1] = pid}) = 1
                     /\ \A i \in 1..Len(out.all_product_ids) :
                           out.all_product_ids[i][1] = pid
                              => out.all_product_ids[i][2] = SourceWeight(pid)
               /\ owned \cap Elements(call.ids) = {} => out.results = <<>>


\* C28: however the retraining job, which writes the user-factor file, the
\* item-factor file and the mapping file one after another, interleaves with
\* loads and reloads, the collaborative generation a completed load leaves in
\* the store is self-consistent: matrices and mappings are those of one
\* training run, so the mappings have one entry per matrix row and none
\* outside.
C28_LoadedGenerationConsistent ==
    \A triple \in committed :
        triple[1] = triple[2] /\ triple[2] = triple[3]


InUnitInterval(x) == RLeq(Zero, x) /\ RLeq(x, One)

\* C29: for every alpha in [0, 1] and every pair of branch lists, each
\* result of hybrid_recommend has its content_score, its cf_score and its
\* hybrid_score in [0, 1].
C29_ScoresInUnitInterval ==
    fpc = "returned"
        => \A i \in 1..Len(res) :
              /\ InUnitInterval(res[i].content_score)
              /\ InUnitInterval(res[i].cf_score)
              /\ InUnitInterval(res[i].hybrid_score)

\* C29 witness: a call with alpha = 0.5 whose content list holds a padded
\* entry of the lowest float returned an item that both branches score 1
\* and an item scored strictly between 0 and 1.
C29_Witness ==
    /\ fpc = "returned"
    /\ req.alpha = Rat(1, 2)
    /\ \E i \in 1..Len(content) : content[i][2] = FloatLowest
    /\ cf # <<>>
    /\ \E i \in 1..Len(res) :
          /\ res[i].source = "hybrid"
          /\ res[i].hybrid_score = One
    /\ \E i \in 1..Len(res) :
          /\ RLt(Zero, res[i].hybrid_score)
          /\ RLt(res[i].hybrid_score, One)


\* The statements of _load_als_factors.
AlsLoadPcs == {"als_chk_u", "als_chk_i", "als_chk_m", "als_ld_u", "als_ld_i",
               "als_ld_m"}

\* C30: the retrain-and-reload task reloads the in-memory collaborative
\* model only after training has reported success and has written every
\* file of the new generation; when training fails or finds no
\* interactions, the task has changed none of user_factors, item_factors,
\* als_mappings.
C30_ReloadOnlyAfterTraining ==
    op["bg"] = "retrain_reload"
        => /\ (pc["bg"] \in AlsLoadPcs \/ changed["bg"] # {})
                 => /\ trained
                    /\ outcome["bg"] # "TrainFailed"
                    /\ \A file \in AlsFiles :
                          \/ disk[file] = gen
                          \/ disk[file] = None /\ removals > 0
           /\ (~trained \/ outcome["bg"] = "TrainFailed")
                 => changed["bg"] = {}

\* C30 witness: the task trained generation 2, wrote its three files and
\* its reload has installed that generation over generation 1.
C30_Witness ==
    /\ op["bg"] = "retrain_reload"
    /\ outcome["bg"] = "ok"
    /\ trained
    /\ gen = 2
    /\ changed["bg"] = AlsFields
    /\ \A f \in AlsFields : store[f] = 2

====
